---- MODULE Spec2Model ----
(***************************************************************************)
(* okanjo-app-mongo: CrudService (create / createWithRetry / find /        *)
(* update / delete / deletePermanently, conceal-aware query composition)   *)
(* and MongoService (multi-schema connection registry with aggregate       *)
(* health and the deferred health_change notification).                    *)
(*                                                                         *)
(* The specifications share the variables below:                           *)
(*   SpecQuery     - CrudService._buildQuery applied to caller objects     *)
(*   SpecCrud      - the collection and the CRUD operations                *)
(*   SpecCrudTimed - the mutating CRUD operations with the clock running   *)
(*   SpecRead      - _retrieve and _count against the collection           *)
(*   SpecRetry     - concurrent _createWithRetry calls (FairSpecRetry:     *)
(*                   the closure and the store always answer)              *)
(*   SpecRegistry  - MongoService connect / connection events / health     *)
(***************************************************************************)
EXTENDS Integers, Sequences, FiniteSets, TLC

VARIABLES
    \* ---- CrudService instance fields (src/CrudService.js:39-60)
    createRetryCount,       \* this._createRetryCount
    concealDeadResources,   \* this._concealDeadResources
    modifiableKeys,         \* this._modifiableKeys
    withCallback,           \* the application hands callbacks to the operations
    \* ---- MongoService identifier configuration (src/MongoService.js:31-34)
    prefixes,               \* the values of this.prefixes
    prefixAliases,          \* the values of this.prefixAliases
    currentEnvironment,     \* this.app.currentEnvironment
    \* ---- the collection behind this.model
    store,                  \* set of stored documents
    nextId,                 \* next _id the store hands out
    now,                    \* wall clock read by new Date()
    \* ---- what the last CRUD operation delivered to its caller
    ret,                    \* with the number of app.report calls the operation made
    codec,                  \* the last identifier conversion: arguments and result
    \* ---- objects owned by the caller of _buildQuery
    qCriteria,              \* the caller's criteria object (mutated in place)
    qOptions,               \* the caller's options object (mutated in place)
    qOrigCriteria,          \* the criteria as the caller wrote them
    qQuery,                 \* the query description returned by the last call
    qCalls,                 \* number of _buildQuery calls made on these objects
    \* ---- _createWithRetry calls in progress
    calls,                  \* per call: pc, attempt, payload, log, outcome
    nextKey,                \* counter behind the caller's key generator
    preexisting,            \* whether the contested key was stored before the calls
    \* ---- MongoService fields (src/MongoService.js:28-38)
    schemas,                \* this.config.schemas
    expectedConnectionReadies,
    dbStates,
    dbConnections,          \* schema name -> readyState of its connection
    reconnectTimers,        \* schema name -> pending setTimeout(_handleReconnect)
    nextTickQueue,          \* process.nextTick queue of health_change emissions
    delivered,              \* health_change values delivered to listeners
    connector,              \* the service connector closure: listener, cb, calls
    connectThrew,           \* connect() threw the configuration error
    connectRuns,            \* number of connect() calls
    appLog,                 \* number of app.log warning pairs written by connect()
    appReports,             \* number of app.report calls made by MongoService
    healthFlips,            \* number of times getHealthStatus() changed value
    events                  \* number of connection events handled so far

queryVars == <<qCriteria, qOptions, qOrigCriteria, qQuery, qCalls>>
svcVars == <<createRetryCount, concealDeadResources, modifiableKeys, withCallback,
             prefixes, prefixAliases, currentEnvironment>>
storeVars == <<store, nextId, now>>
crudVars == <<ret, codec>>
retryVars == <<calls, nextKey, preexisting>>
regVars == <<schemas, expectedConnectionReadies, dbStates, dbConnections,
             reconnectTimers, nextTickQueue, delivered, connector, connectThrew,
             connectRuns, appLog, appReports, healthFlips, events>>
vars == <<queryVars, svcVars, storeVars, crudVars, retryVars, regVars>>

(***************************************************************************)
(* Bounds of the model                                                     *)
(***************************************************************************)
MaxAnd == 4          \* longest $and list a criteria object may grow to
MaxCalls == 3        \* _buildQuery calls made on the same caller objects
MaxRecords == 2      \* documents ever created in the collection
MaxClock == 1        \* clock ticks
MaxReports == 3      \* app.report calls counted
MaxEvents == 4       \* connection events handled by the registry
MaxConnects == 2     \* connect() calls

(***************************************************************************)
(* Program constants                                                       *)
(***************************************************************************)
DefaultCreateRetryCount == 3
InitialExpectedConnectionReadies == 1
deletedStatus == "dead"

(***************************************************************************)
(* Data model of documents, predicates and criteria                        *)
(***************************************************************************)
StatusValues == {"", "active", "dead"}
KeySeq == <<"k0", "k1", "k2", "k3", "k4", "k5", "k6", "k7", "k8">>
ContestedKey == KeySeq[1]
CallerKeys == {KeySeq[1], KeySeq[2]}

\* A field predicate: absent (the field is not in the criteria), a bare value
\* (equality) or the operator object {$ne: val}.
AbsentPred == [op |-> "absent", val |-> ""]
Eq(v) == [op |-> "eq", val |-> v]
Ne(v) == [op |-> "ne", val |-> v]

\* JavaScript truthiness of criteria.status: undefined and the empty string are
\* falsy, every non-empty string and every operator object is truthy.
Truthy(pred) == pred.op # "absent" /\ ~(pred.op = "eq" /\ pred.val = "")

\* One entry of an $and list: a single-field condition.
Cond(f, pred) == [field |-> f, pred |-> pred]

\* criteria: given = FALSE models undefined/null criteria.
NoCriteria ==
    [given |-> FALSE, status |-> AbsentPred, key |-> AbsentPred,
     hasAnd |-> FALSE, and |-> <<>>]
Criteria(st, k, hasAnd, andList) ==
    [given |-> TRUE, status |-> st, key |-> k, hasAnd |-> hasAnd, and |-> andList]

PredHolds(pred, v) ==
    CASE pred.op = "absent" -> TRUE
      [] pred.op = "eq" -> v = pred.val
      [] pred.op = "ne" -> v # pred.val

FieldOf(doc, f) == IF f = "status" THEN doc.status ELSE doc.key

\* The store's evaluation of a filter against one document: every top-level
\* field predicate and every $and entry must hold.
Matches(criteria, doc) ==
    /\ PredHolds(criteria.status, doc.status)
    /\ PredHolds(criteria.key, doc.key)
    /\ \A i \in 1..Len(criteria.and) :
          PredHolds(criteria.and[i].pred, FieldOf(doc, criteria.and[i].field))

(***************************************************************************)
(* CrudService._buildQuery  (src/CrudService.js:189-254)                   *)
(***************************************************************************)
Undefined == "undefined"
NoNumber == -1       \* an undefined numeric option (skip, take)

\* options: the recognised keys plus `exec`, the one other key the service
\* itself ever puts on an options object (_count).
Options(skip, take, fields, sort, conceal, exec) ==
    [skip |-> skip, take |-> take, fields |-> fields, sort |-> sort,
     conceal |-> conceal, exec |-> exec]
EmptyOptions == Options(NoNumber, NoNumber, Undefined, Undefined, Undefined, Undefined)

\* let conceal = true; if (options.conceal !== undefined) conceal = options.conceal
\* (ConcealOfIgnored is the faulty variant that never reads options.conceal)
ConcealOfIgnored(options) == TRUE
ConcealOf(options) ==
    IF options.conceal # Undefined THEN options.conceal = "true" ELSE TRUE

\* The options object once the recognised keys have been deleted from it.
StripOptions(options) ==
    [options EXCEPT !.skip = NoNumber, !.take = NoNumber, !.fields = Undefined,
                    !.sort = Undefined, !.conceal = Undefined]

\* Object.keys(options).length > 0 after stripping
HasPassthrough(options) == StripOptions(options).exec # Undefined

\* const deadFilter = { status: { $ne: this._deletedStatus } }
DeadFilter == Criteria(Ne(deletedStatus), AbsentPred, FALSE, <<>>)

\* Faulty variant of the conceal branch: a status the caller gave is trusted
\* as it is.
ConcealMergeTrustsCaller(criteria) ==
    IF criteria.given
    THEN IF Truthy(criteria.status)
         THEN criteria
         ELSE [criteria EXCEPT !.status = Ne(deletedStatus)]
    ELSE Criteria(Ne(deletedStatus), AbsentPred, FALSE, <<>>)

\* The conceal branch of _buildQuery: the filter handed to model.find. When
\* criteria are given the filter IS the caller's object, edited in place.
\* (ConcealMergeSkipsDefault is the faulty variant without the two else
\* branches that default the status)
ConcealMergeSkipsDefault(criteria) ==
    IF criteria.given /\ Truthy(criteria.status)
    THEN [criteria EXCEPT
             !.status = AbsentPred,
             !.hasAnd = TRUE,
             !.and = (IF criteria.hasAnd THEN criteria.and ELSE <<>>)
                     \o <<Cond("status", criteria.status),
                          Cond("status", Ne(deletedStatus))>>]
    ELSE criteria
ConcealMerge(criteria) ==
    IF criteria.given
    THEN IF Truthy(criteria.status)
         THEN LET compositeConditions ==
                      <<Cond("status", criteria.status),
                        Cond("status", DeadFilter.status)>>
              IN  [criteria EXCEPT
                      !.status = AbsentPred,
                      !.hasAnd = TRUE,
                      !.and = IF criteria.hasAnd
                              THEN criteria.and \o compositeConditions
                              ELSE compositeConditions]
         ELSE [criteria EXCEPT !.status = DeadFilter.status]
    ELSE DeadFilter

\* The query description returned by _buildQuery together with the state it
\* leaves the caller's two objects in.
buildQuery(criteria, options, svcConceal) ==
    LET conceal == ConcealOf(options)
        filter == IF svcConceal /\ conceal THEN ConcealMerge(criteria) ELSE criteria
    IN  [built |-> TRUE,
         filter |-> filter,
         conceal |-> svcConceal /\ conceal,
         skip |-> options.skip,
         limit |-> options.take,
         fields |-> options.fields,
         sort |-> options.sort,
         setOptions |-> HasPassthrough(options),
         criteriaAfter |-> IF criteria.given THEN filter ELSE criteria,
         optionsAfter |-> StripOptions(options)]

NoQuery ==
    [built |-> FALSE, filter |-> NoCriteria, conceal |-> FALSE, skip |-> NoNumber,
     limit |-> NoNumber, fields |-> Undefined, sort |-> Undefined,
     setOptions |-> FALSE, criteriaAfter |-> NoCriteria, optionsAfter |-> EmptyOptions]

\* Criteria and options a caller may write.
CallerStatusPreds ==
    {AbsentPred} \cup {Eq(v) : v \in StatusValues} \cup {Ne(v) : v \in StatusValues}
CallerKeyPreds == {AbsentPred, Eq(ContestedKey)}
CallerAndLists ==
    {<<>>, <<Cond("key", Eq(ContestedKey))>>, <<Cond("status", Eq(deletedStatus))>>}
CallerCriteria ==
    {NoCriteria}
    \cup {Criteria(st, k, FALSE, <<>>) : st \in CallerStatusPreds, k \in CallerKeyPreds}
    \cup {Criteria(st, k, TRUE, a) :
            st \in CallerStatusPreds, k \in CallerKeyPreds, a \in CallerAndLists}
CallerOptions ==
    {Options(sk, tk, Undefined, so, c, Undefined) :
        sk \in {NoNumber, 1}, tk \in {NoNumber, 1}, so \in {Undefined, "id"},
        c \in {Undefined, "true", "false"}}

\* The criteria and options drawn for a _find against the collection.
FindCriteria ==
    {NoCriteria}
    \cup {Criteria(st, k, FALSE, <<>>) :
            st \in {AbsentPred, Eq(""), Eq("active"), Eq(deletedStatus), Ne("active")},
            k \in CallerKeyPreds}
    \cup {Criteria(st, AbsentPred, TRUE, <<Cond("status", Eq(deletedStatus))>>) :
            st \in {AbsentPred, Eq("active"), Eq(deletedStatus)}}
FindOptions ==
    {Options(p[1], p[2], Undefined, Undefined, c, Undefined) :
        p \in {<<NoNumber, NoNumber>>, <<1, NoNumber>>, <<NoNumber, 1>>},
        c \in {Undefined, "true", "false"}}

\* Documents a filter is evaluated against in the claims about _buildQuery.
DocSpace == [id : {1}, key : CallerKeys, status : StatusValues, updated : {0}]

\* A caller invokes _buildQuery on the criteria and options objects it holds.
BuildQuery ==
    /\ qCalls < MaxCalls
    /\ LET q == buildQuery(qCriteria, qOptions, concealDeadResources)
       IN  /\ Len(q.criteriaAfter.and) <= MaxAnd
           /\ qQuery' = q
           /\ qCriteria' = q.criteriaAfter
           /\ qOptions' = q.optionsAfter
    /\ qCalls' = qCalls + 1
    /\ UNCHANGED <<qOrigCriteria, svcVars, storeVars, crudVars, retryVars, regVars>>

(***************************************************************************)
(* Identifiers  (src/MongoService.js:117-229, 350)                         *)
(*                                                                         *)
(* A string is a sequence of one-character strings, so that the pattern    *)
(* match, the prefix tests and the base-58 arithmetic work on characters.  *)
(***************************************************************************)
LowerCase ==
    <<"a", "b", "c", "d", "e", "f", "g", "h", "i", "j", "k", "l", "m", "n", "o", "p",
      "q", "r", "s", "t", "u", "v", "w", "x", "y", "z">>
UpperCase ==
    <<"A", "B", "C", "D", "E", "F", "G", "H", "I", "J", "K", "L", "M", "N", "O", "P",
      "Q", "R", "S", "T", "U", "V", "W", "X", "Y", "Z">>
HexAlphabet == <<"0", "1", "2", "3", "4", "5", "6", "7", "8", "9", "a", "b", "c", "d", "e", "f">>
\* The alphabet of BaseId.base58
Base58Alphabet ==
    <<"1", "2", "3", "4", "5", "6", "7", "8", "9", "A", "B", "C", "D", "E", "F", "G",
      "H", "J", "K", "L", "M", "N", "P", "Q", "R", "S", "T", "U", "V", "W", "X", "Y",
      "Z", "a", "b", "c", "d", "e", "f", "g", "h", "i", "j", "k", "m", "n", "o", "p",
      "q", "r", "s", "t", "u", "v", "w", "x", "y", "z">>

Range(f) == {f[i] : i \in DOMAIN f}
IndexIn(alphabet, c) == CHOOSE i \in DOMAIN alphabet : alphabet[i] = c

\* String.prototype.toLowerCase, character by character
LowerOfUpper == [c \in Range(UpperCase) |-> LowerCase[IndexIn(UpperCase, c)]]
LowerOf(c) == IF c \in DOMAIN LowerOfUpper THEN LowerOfUpper[c] ELSE c
toLowerCase(str) == [i \in DOMAIN str |-> LowerOf(str[i])]

\* [a-z] under the i flag
Letters == Range(LowerCase) \cup Range(UpperCase)
IsLetter(c) == c \in Letters

\* ---- positional-notation arithmetic on digit sequences (most significant
\* digit first) of arbitrary length, as the base-58 coder needs it for
\* 12-byte values
RECURSIVE StripZeros(_)
StripZeros(digits) ==
    IF digits # <<>> /\ Head(digits) = 0 THEN StripZeros(Tail(digits)) ELSE digits

\* Long division of a base-`base` number by the small number `d`, digit by
\* digit: the quotient's digits and the remainder.
RECURSIVE LongDivision(_, _, _, _, _, _)
LongDivision(digits, base, d, i, rem, quotient) ==
    IF i > Len(digits)
    THEN [quotient |-> quotient, remainder |-> rem]
    ELSE LET cur == rem * base + digits[i]
         IN  LongDivision(digits, base, d, i + 1, cur % d, Append(quotient, cur \div d))

\* The digits of the number in base `to`, by repeated division.
RECURSIVE ConvertBase(_, _, _)
ConvertBase(digits, from, to) ==
    LET n == StripZeros(digits)
        division == LongDivision(n, from, to, 1, 0, <<>>)
    IN  IF n = <<>> THEN <<>>
        ELSE Append(ConvertBase(division.quotient, from, to), division.remainder)

\* The value of every character of an alphabet, and the two directions
\* between a string over the alphabet and its digits.
ValueIn(alphabet) == [c \in Range(alphabet) |-> IndexIn(alphabet, c) - 1]
HexValue == ValueIn(HexAlphabet)
Base58Value == ValueIn(Base58Alphabet)
DigitsOf(str, value) == [i \in DOMAIN str |-> value[str[i]]]
StringOf(digits, alphabet) == [i \in DOMAIN digits |-> alphabet[digits[i] + 1]]

\* ---- values an identifier argument may hold (mixed_id)
Value(type, str, num) == [type |-> type, str |-> str, num |-> num]
UndefinedValue == Value("undefined", <<>>, 0)
NullValue == Value("null", <<>>, 0)
ObjectValue == Value("object", <<>>, 0)          \* {}
ArrayValue == Value("array", <<>>, 0)            \* []
FunctionValue == Value("function", <<>>, 0)
StringValue(str) == Value("string", str, 0)
NumberValue(n) == Value("number", <<>>, n)
\* An ObjectId instance is known by its 24 hex digits, by the 12 raw
\* characters it was built from, or by the time it was generated for.
ObjectIdValue(hex) == Value("ObjectId", hex, 0)
ObjectIdOfBytes(str) == Value("ObjectIdOfBytes", str, 0)
ObjectIdOfTime(n) == Value("ObjectIdOfTime", <<>>, n)
IsObjectId(v) == v.type \in {"ObjectId", "ObjectIdOfBytes", "ObjectIdOfTime"}

\* ---- strings used by the tests and the example application
Underscore == "_"
DoodPrefix == <<"d", "o", "o", "d">>          \* app.prefixes.doodad
LegacyPrefix == <<"D", "D">>             \* app.prefixAliases.doodad
UnknownPrefix == <<"X", "X">>            \* a prefix nobody registered
SentinelPrefix == <<"d", "e", "r", "p">>      \* prefix = "derp"
EnvDefault == <<"d", "e", "f", "a", "u", "l", "t">>
EnvProduction == <<"p", "r", "o", "d", "u", "c", "t", "i", "o", "n">>
EnvLocalPrefix == <<"l", "o", "c", "a", "l", "_">>
EnvDev == <<"d", "e", "v">>
EnvSandbox == <<"s", "a", "n", "d", "b", "o", "x">>
EnvNumbered == <<"d", "e", "v", "2">>       \* an environment name with a digit
SampleHex == <<"5", "6", "7", "1", "9", "4", "8", "e", "9", "1", "0", "d", "4", "a", "7", "a", "2", "6", "7", "9", "0", "1", "9", "2">>
OtherHex == <<"5", "6", "7", "1", "9", "4", "8", "e", "9", "1", "0", "d", "4", "a", "7", "a", "2", "6", "7", "9", "0", "1", "9", "3">>

\* BaseId.base58.encode of a hex string, and BaseId.base58.decode to hex
Base58Encode(hex) ==
    StringOf(ConvertBase(DigitsOf(hex, HexValue), 16, 58), Base58Alphabet)
\* (the decoder works in 16-bit words, each written out as four hex digits)
HexOfWords(words) ==
    [i \in 1..(4 * Len(words)) |->
        LET w == words[((i - 1) \div 4) + 1]
        IN  CASE (i - 1) % 4 = 0 -> w \div 4096
              [] (i - 1) % 4 = 1 -> (w \div 256) % 16
              [] (i - 1) % 4 = 2 -> (w \div 16) % 16
              [] OTHER -> w % 16]
Base58Decode(str) ==
    StringOf(StripZeros(HexOfWords(ConvertBase(DigitsOf(str, Base58Value), 58, 65536))),
             HexAlphabet)
\* BaseId.base58.encodeWithPrefix / decodeWithPrefix
EncodeWithPrefix(hex, prefix) == prefix \o Base58Encode(hex)
DecodeWithPrefix(str, prefix) == Base58Decode(SubSeq(str, Len(prefix) + 1, Len(str)))

\* ---- MongoService._identifierParser = /^([a-z]+)_([a-z_]*?)_?([^_]+)$/i
\* Both ends are anchored and group 3 holds no underscore, so group 1 is the
\* run of letters before the first underscore, group 3 is what follows the
\* last underscore, and the lazy group 2 has to cover what lies between them
\* with letters and underscores only.
UnderscoresOf(str) == {i \in DOMAIN str : str[i] = Underscore}
FirstUnderscore(str) ==
    CHOOSE i \in UnderscoresOf(str) : \A j \in UnderscoresOf(str) : i <= j
LastUnderscore(str) ==
    CHOOSE i \in UnderscoresOf(str) : \A j \in UnderscoresOf(str) : i >= j
ParserMatches(str) ==
    /\ UnderscoresOf(str) # {}
    /\ FirstUnderscore(str) > 1
    /\ \A i \in 1..(FirstUnderscore(str) - 1) : IsLetter(str[i])
    /\ LastUnderscore(str) < Len(str)
    /\ \A i \in (FirstUnderscore(str) + 1)..(LastUnderscore(str) - 1) :
          IsLetter(str[i]) \/ str[i] = Underscore
\* match[1] and match[3]
ParserPrefix(str) == SubSeq(str, 1, FirstUnderscore(str) - 1)
ParserPayload(str) == SubSeq(str, LastUnderscore(str) + 1, Len(str))

\* ObjectId.prototype.toString() of an id known by its hex digits
toString(objectId) == CASE objectId.type = "ObjectId" -> objectId.str

\* Object.keys(this.prefixes).find((key) => this.prefixes[key] === prefix)
\* (IsCurrentPrefixAny is the faulty variant that accepts every prefix)
IsCurrentPrefixAny(prefix) == TRUE
IsCurrentPrefix(prefix) == prefix \in prefixes
\* Object.keys(this.prefixAliases).find((key) => this.prefixAliases[key] === prefix)
\* (IsAliasNever is the faulty variant that knows no alias)
IsAliasNever(prefix) == FALSE
IsAlias(prefix) == prefix \in prefixAliases

\* getComparableId(mixed_id)
getComparableId(mixed_id) ==
    IF IsObjectId(mixed_id)
    THEN StringValue(toString(mixed_id))
    ELSE IF mixed_id.type = "string"
    THEN LET str == mixed_id.str
         IN  IF ParserMatches(str)
             THEN IF IsCurrentPrefix(ParserPrefix(str))
                  THEN StringValue(toLowerCase(Base58Decode(ParserPayload(str))))
                  ELSE mixed_id
             ELSE LET prefix == IF Len(str) >= 2 THEN SubSeq(str, 1, 2) ELSE <<>>
                  IN  IF prefix # <<>> /\ IsAlias(prefix)
                      THEN StringValue(toLowerCase(DecodeWithPrefix(str, prefix)))
                      ELSE mixed_id
    ELSE mixed_id

\* compareIds(a, b)
compareIds(a, b) == getComparableId(a) = getComparableId(b)

\* ObjectId.isValid(id) as getObjectId relies on it: a number, a string of 12
\* characters, a string of 24 hex digits or an ObjectId.
\* (isValidStrict is the faulty variant that takes 24 hex digits or an ObjectId only)
IsHexDigit(c) == LowerOf(c) \in DOMAIN HexValue
isValidStrict(id) ==
    CASE id.type = "string" ->
            Len(id.str) = 24 /\ \A i \in DOMAIN id.str : IsHexDigit(id.str[i])
      [] IsObjectId(id) -> TRUE
      [] OTHER -> FALSE
isValid(id) ==
    CASE id.type \in {"undefined", "null"} -> FALSE
      [] id.type = "number" -> TRUE
      [] id.type = "string" ->
            \/ Len(id.str) = 12
            \/ Len(id.str) = 24 /\ \A i \in DOMAIN id.str : IsHexDigit(id.str[i])
      [] IsObjectId(id) -> TRUE
      [] OTHER -> FALSE

\* new ObjectId(comparableId) for a value isValid accepted
NewObjectId(id) ==
    CASE id.type = "number" -> ObjectIdOfTime(id.num)
      [] id.type = "string" /\ Len(id.str) = 24 -> ObjectIdValue(toLowerCase(id.str))
      [] id.type = "string" /\ Len(id.str) = 12 -> ObjectIdOfBytes(id.str)
      [] IsObjectId(id) -> id

\* getObjectId(mixed_id): null when the value does not convert
\* (getObjectIdUnchecked is the faulty variant without the isValid test)
getObjectIdUnchecked(mixed_id) ==
    IF IsObjectId(mixed_id)
    THEN mixed_id
    ELSE LET comparableId == getComparableId(mixed_id)
         IN  IF comparableId.type = "string"
             THEN ObjectIdOfBytes(comparableId.str)
             ELSE NullValue
getObjectId(mixed_id) ==
    IF IsObjectId(mixed_id)
    THEN mixed_id
    ELSE LET comparableId == getComparableId(mixed_id)
         IN  IF isValid(comparableId) THEN NewObjectId(comparableId) ELSE NullValue

\* getEnvironmentIdPrefix()
getEnvironmentIdPrefix ==
    IF currentEnvironment = EnvDefault THEN EnvLocalPrefix
    ELSE IF currentEnvironment = EnvProduction THEN <<>>
    ELSE Append(currentEnvironment, Underscore)

\* !prefix
Falsy(value) ==
    \/ value.type \in {"undefined", "null"}
    \/ value.type = "string" /\ value.str = <<>>
    \/ value.type = "number" /\ value.num = 0

\* BaseId.base58.encode(id) of an ObjectId, a hex string or a number
RECURSIVE Decimal(_)
Decimal(n) == IF n = 0 THEN <<>> ELSE Append(Decimal(n \div 10), n % 10)
EncodeValue(id) ==
    CASE id.type = "ObjectId" -> Base58Encode(id.str)
      [] id.type = "string" -> Base58Encode(id.str)
      [] id.type = "number" -> StringOf(ConvertBase(Decimal(id.num), 10, 58), Base58Alphabet)

\* getPublicId(id, prefix): the public identifier and whether the missing
\* prefix was reported
getPublicId(id, prefix) ==
    LET used == IF Falsy(prefix) THEN SentinelPrefix ELSE prefix.str
    IN  [out |-> StringValue(used \o <<Underscore>> \o getEnvironmentIdPrefix
                             \o EncodeValue(id)),
         reported |-> Falsy(prefix)]

\* The values app.currentEnvironment takes
Environments == {EnvDefault, EnvProduction, EnvDev, EnvSandbox, EnvNumbered}

\* app.currentEnvironment = env
SetEnvironment(env) ==
    /\ currentEnvironment # env
    /\ currentEnvironment' = env
    /\ UNCHANGED <<createRetryCount, concealDeadResources, modifiableKeys,
                   withCallback, prefixes, prefixAliases>>
    /\ UNCHANGED <<queryVars, storeVars, crudVars, retryVars, regVars>>

\* A caller asks for the public identifier of id under prefix.
PublicId(id, prefix) ==
    /\ LET r == getPublicId(id, prefix)
       IN  codec' = [op |-> "getPublicId", in |-> id, prefix |-> prefix,
                     other |-> UndefinedValue, out |-> r.out, equal |-> FALSE,
                     reported |-> r.reported,
                     env |-> currentEnvironment]   \* the environment it was made in
    /\ UNCHANGED <<ret, queryVars, svcVars, storeVars, retryVars, regVars>>

\* A caller hands the public identifier it was given back to
\* getComparableId, getObjectId and compareIds: other keeps the public
\* identifier, out the comparable form, and equal what compareIds says of
\* the public identifier and the identifier it was made from.
ComparableId ==
    /\ codec.op = "getPublicId"
    /\ codec' = [codec EXCEPT !.op = "getComparableId",
                              !.other = codec.out,
                              !.out = getComparableId(codec.out),
                              !.equal = compareIds(codec.out, codec.in)]
    /\ UNCHANGED <<ret, queryVars, svcVars, storeVars, retryVars, regVars>>
ObjectIdOf ==
    /\ codec.op = "getPublicId"
    /\ codec' = [codec EXCEPT !.op = "getObjectId",
                              !.other = codec.out,
                              !.out = getObjectId(codec.out),
                              !.equal = compareIds(codec.out, codec.in)]
    /\ UNCHANGED <<ret, queryVars, svcVars, storeVars, retryVars, regVars>>

(***************************************************************************)
(* The collection and the CRUD operations  (src/CrudService.js:70-420)     *)
(***************************************************************************)
Doc(id, key, status, updated) ==
    [id |-> id, key |-> key, status |-> status, updated |-> updated]

\* The unique index of the collection: a save of `doc` collides when another
\* document already holds its key.
Collides(doc) == \E d \in store : d.key = doc.key /\ d.id # doc.id

\* query.skip(skip).limit(limit) over the matching documents in _id order.
Rank(doc, docs) == Cardinality({d \in docs : d.id <= doc.id})
Page(docs, skip, limit) ==
    {d \in docs :
        /\ skip # NoNumber => Rank(d, docs) > skip
        /\ limit # NoNumber =>
              Rank(d, docs) <= (IF skip # NoNumber THEN skip ELSE 0) + limit}

\* query.exec(): the documents the store returns for a query description.
Exec(q) == Page({d \in store : Matches(q.filter, d)}, q.skip, q.limit)

\* _update(doc, callback): no data object
NoData == [x \in {} |-> ""]

\* How an operation that has its outcome hands it over: the number of times
\* it calls the callback and the number of times it settles the promise it
\* returned. Every operation returns from `if (callback) return callback(...)`
\* before it reaches resolve or reject, but for the success branch of _create,
\* `if (callback) callback(null, savedObj); return resolve(savedObj);`.
Deliver(op, err, callback) ==
    [cbCalls |-> IF callback THEN 1 ELSE 0,
     settles |-> IF callback
                 THEN IF op = "create" /\ err = "none" THEN 1 ELSE 0
                 ELSE 1]

\* What an operation hands to its caller (callback arguments or settled promise).
Ret(op, err, docs, reports, svcConceal, optConceal) ==
    [op |-> op, err |-> err, docs |-> docs, reports |-> reports,
     cbCalls |-> IF op = "none" THEN 0 ELSE Deliver(op, err, withCallback).cbCalls,
     settles |-> IF op = "none" THEN 0 ELSE Deliver(op, err, withCallback).settles,
     svcConceal |-> svcConceal, optConceal |-> optConceal,
     arg |-> UndefinedValue,     \* the identifier _retrieve was given
     queried |-> FALSE,          \* a read query was sent to the store
     suppressed |-> FALSE,       \* _create was told to keep collisions quiet
     matched |-> {},             \* stored documents the criteria as written match
     paged |-> FALSE,            \* _find was given skip or take
     was |-> Doc(0, "", "", 0),  \* the stored document _update or _delete was given
     data |-> NoData,            \* the data object _update was given
     count |-> NoNumber]         \* the number _count resolved with
NoRet == Ret("none", "none", {}, 0, FALSE, Undefined)

\* this.app.report(...), counted up to MaxReports
Report(n) == IF n < MaxReports THEN n + 1 ELSE n

\* err.code === CrudService._collisionErrorCode
\* (IsCollisionAnyError is the faulty variant that takes every error for one)
IsCollisionAnyError(err) == err # "none"
IsCollision(err) == err = "collision"

\* The error-reporting test of _create:
\* !suppressCollisionError || err.code !== CrudService._collisionErrorCode
\* (CreateReportsAlways is the faulty variant that ignores the suppression,
\* CreateReportsNoCollision the one that never reports a collision)
CreateReportsAlways(err, suppressCollisionError) == TRUE
CreateReportsNoCollision(err, suppressCollisionError) == ~IsCollision(err)
CreateReports(err, suppressCollisionError) ==
    ~suppressCollisionError \/ ~IsCollision(err)

\* doc.save() of a new document: the store's verdict.
SaveVerdicts(doc) == IF Collides(doc) THEN {"collision", "error"} ELSE {"none", "error"}

\* _create(data, callback, suppressCollisionError)
Create(key, status, suppressCollisionError) ==
    /\ nextId <= MaxRecords
    /\ LET doc == Doc(nextId, key, status, now)
           told(r) == [r EXCEPT !.suppressed = suppressCollisionError]
       IN  \E err \in SaveVerdicts(doc) :
              IF err = "none"
              THEN /\ store' = store \cup {doc}
                   /\ nextId' = nextId + 1
                   /\ ret' = told(Ret("create", "none", {doc}, 0,
                                      concealDeadResources, Undefined))
              ELSE /\ ret' = told(Ret("create", err, {},
                                      IF CreateReports(err, suppressCollisionError)
                                      THEN 1 ELSE 0,
                                      concealDeadResources, Undefined))
                   /\ UNCHANGED <<store, nextId>>
    /\ UNCHANGED <<now, codec, queryVars, svcVars, retryVars, regVars>>

\* _applyUpdates(doc, data): data is the set of fields it carries with values.
\* (applyUpdatesAll is the faulty variant that copies every field of data)
applyUpdatesAll(doc, data) ==
    [f \in DOMAIN doc |-> IF f \in DOMAIN data THEN data[f] ELSE doc[f]]
applyUpdates(doc, data) ==
    [f \in DOMAIN doc |->
        IF f \in modifiableKeys /\ f \in DOMAIN data THEN data[f] ELSE doc[f]]

\* The body of _update once doc and data are settled: stamp, save, report.
\* (UpdateDocNoStamp is the faulty variant without doc.updated = new Date())
UpdateDocNoStamp(op, old, doc, data) ==
    LET applied == applyUpdates(doc, data)
        given(r) == [r EXCEPT !.was = old, !.data = data]
    IN  \E err \in SaveVerdicts(applied) :
           IF err = "none"
           THEN /\ store' = (store \ {old}) \cup {applied}
                /\ ret' = given(Ret(op, "none", {applied}, 0,
                                     concealDeadResources, Undefined))
           ELSE /\ ret' = given(Ret(op, err, {}, 1, concealDeadResources, Undefined))
                /\ UNCHANGED store
UpdateDoc(op, old, doc, data) ==
    LET applied == applyUpdates(doc, data)
        stamped == [applied EXCEPT !.updated = now]
        given(r) == [r EXCEPT !.was = old, !.data = data]
    IN  \E err \in SaveVerdicts(stamped) :
           IF err = "none"
           THEN /\ store' = (store \ {old}) \cup {stamped}
                /\ ret' = given(Ret(op, "none", {stamped}, 0,
                                     concealDeadResources, Undefined))
           ELSE /\ ret' = given(Ret(op, err, {}, 1, concealDeadResources, Undefined))
                /\ UNCHANGED store

\* The data objects a caller hands to _update: nothing, a new key, a new
\* status, or both.
UpdateData ==
    {NoData}
    \cup {[key |-> k] : k \in CallerKeys}
    \cup {[status |-> deletedStatus]}
    \cup {[key |-> k, status |-> "active"] : k \in CallerKeys}

\* _update(doc, data, callback)
Update(doc, data) ==
    /\ doc \in store
    /\ UpdateDoc("update", doc, doc, data)
    /\ UNCHANGED <<nextId, now, codec, queryVars, svcVars, retryVars, regVars>>

\* _delete(doc, callback): doc.status = this._deletedStatus; this._update(doc, callback)
\* (DeleteRemoves is the faulty variant that removes the document)
DeleteRemoves(doc) ==
    /\ doc \in store
    /\ store' = store \ {doc}
    /\ ret' = Ret("delete", "none", {[doc EXCEPT !.status = deletedStatus]}, 0,
                  concealDeadResources, Undefined)
    /\ UNCHANGED <<nextId, now, codec, queryVars, svcVars, retryVars, regVars>>
Delete(doc) ==
    /\ doc \in store
    /\ UpdateDoc("delete", doc, [doc EXCEPT !.status = deletedStatus], NoData)
    /\ UNCHANGED <<nextId, now, codec, queryVars, svcVars, retryVars, regVars>>

\* _deletePermanently(doc, callback)
DeletePermanently(doc) ==
    /\ doc \in store
    /\ \E err \in {"none", "error"} :
          IF err = "none"
          THEN /\ store' = store \ {doc}
               /\ ret' = Ret("deletePermanently", "none", {doc}, 0,
                             concealDeadResources, Undefined)
          ELSE /\ ret' = Ret("deletePermanently", err, {}, 1,
                             concealDeadResources, Undefined)
               /\ UNCHANGED store
    /\ UNCHANGED <<nextId, now, codec, queryVars, svcVars, retryVars, regVars>>

\* _find(criteria, options, callback) on fresh caller objects
Find(criteria, options) ==
    /\ LET query == buildQuery(criteria, options, concealDeadResources)
           sent(r) ==
               [r EXCEPT !.queried = TRUE,
                         !.matched = {d \in store : Matches(criteria, d)},
                         !.paged = (options.skip # NoNumber \/ options.take # NoNumber)]
       IN  \E err \in {"none", "error"} :
              IF err = "none"
              THEN ret' = sent(Ret("find", "none", Exec(query), 0,
                                   concealDeadResources, options.conceal))
              ELSE ret' = sent(Ret("find", err, {}, 1,
                                   concealDeadResources, options.conceal))
    /\ UNCHANGED <<storeVars, codec, queryVars, svcVars, retryVars, regVars>>

\* The _id the store gives the n-th document, and the document an ObjectId
\* names.
HexOfId(n) == [SampleHex EXCEPT ![Len(SampleHex)] = HexAlphabet[n + 1]]
IdOf(doc) == ObjectIdValue(HexOfId(doc.id))

\* this.model.findOne(criteria).exec(): criteria = {_id: objectId} with
\* status: {$ne: deletedStatus} added when the service conceals.
\* (FindOneAlwaysConceals is the faulty variant that adds the status filter
\* whatever the flag says)
FindOneAlwaysConceals(objectId, svcConceal) ==
    {d \in store : IdOf(d) = objectId /\ d.status # deletedStatus}
FindOne(objectId, svcConceal) ==
    {d \in store : IdOf(d) = objectId /\ (svcConceal => d.status # deletedStatus)}

\* The report _count makes when the store fails: its catch block hands the
\* error to the caller and calls nothing else.
CountReports(err) == 0

\* The base-58 payload of every _id the store can hand out.
PayloadOfId == [n \in 1..(MaxRecords + 1) |-> Base58Encode(HexOfId(n))]

\* The identifiers a caller may hand to _retrieve: values that are no
\* identifier, strings under an unregistered prefix, a registered prefix with
\* a payload that is no 12-byte value, a string of 12 characters, and the _id
\* of a stored document as ObjectId, hex string, legacy public id and current
\* public id.
NotAnId == <<"n", "o", "p", "e">>
ShortPayload == <<"4", "f", "r">>
NonIdentifiers ==
    {UndefinedValue, NullValue, ObjectValue, StringValue(<<>>),
     StringValue(NotAnId),
     StringValue(UnknownPrefix \o PayloadOfId[1]),
     StringValue(UnknownPrefix \o <<Underscore>> \o PayloadOfId[1]),
     StringValue(DoodPrefix \o <<Underscore>> \o ShortPayload)}
RetrieveIds ==
    NonIdentifiers
    \cup {StringValue(UnknownPrefix \o SubSeq(PayloadOfId[1], 1, 10))}
    \cup {IdOf(d) : d \in store}
    \cup {StringValue(HexOfId(d.id)) : d \in store}
    \cup {StringValue(LegacyPrefix \o PayloadOfId[d.id]) : d \in store}
    \cup {StringValue(DoodPrefix \o <<Underscore>> \o getEnvironmentIdPrefix
                       \o PayloadOfId[d.id]) : d \in store}
    \cup {ObjectIdValue(OtherHex)}

\* _retrieve(id, callback)
Retrieve(id) ==
    /\ LET objectId == getObjectId(id)
           given(r) == [r EXCEPT !.arg = id]
           sent(r) == [r EXCEPT !.arg = id, !.queried = TRUE]
       IN  IF objectId # NullValue
           THEN \E err \in {"none", "error"} :
                   IF err = "none"
                   THEN ret' = sent(Ret("retrieve", "none",
                                        FindOne(objectId, concealDeadResources), 0,
                                        concealDeadResources, Undefined))
                   ELSE ret' = sent(Ret("retrieve", err, {}, 1,
                                        concealDeadResources, Undefined))
           ELSE ret' = given(Ret("retrieve", "none", {}, 0,
                                 concealDeadResources, Undefined))
    /\ UNCHANGED <<storeVars, codec, queryVars, svcVars, retryVars, regVars>>

\* _count(criteria, options, callback) on fresh caller objects
Count(criteria, options) ==
    /\ LET query == buildQuery(criteria, [options EXCEPT !.exec = "false"],
                               concealDeadResources)
           sent(r) == [r EXCEPT !.queried = TRUE]
       IN  \E err \in {"none", "error"} :
              IF err = "none"
              THEN ret' = [sent(Ret("count", "none", {}, 0,
                                    concealDeadResources, options.conceal))
                              EXCEPT !.count = Cardinality(Exec(query))]
              ELSE ret' = sent(Ret("count", err, {}, CountReports(err),
                                   concealDeadResources, options.conceal))
    /\ UNCHANGED <<storeVars, codec, queryVars, svcVars, retryVars, regVars>>

\* The options drawn for a _count: the conceal choice only.
CountOptions ==
    {Options(NoNumber, NoNumber, Undefined, Undefined, c, Undefined) :
        c \in {Undefined, "true", "false"}}

\* Time passes between operations.
Tick ==
    /\ now < MaxClock
    /\ now' = now + 1
    /\ UNCHANGED <<store, nextId, crudVars, queryVars, svcVars, retryVars, regVars>>

(***************************************************************************)
(* CrudService._createWithRetry  (src/CrudService.js:102-139)              *)
(***************************************************************************)
Calls == {1, 2}

\* The caller's objectClosure(data, attempt):
\*   "stick"  returns the payload unchanged on every attempt,
\*   "regen"  keeps the payload on attempt 0 and generates a new key on a retry,
\*   "throws" keeps the payload on attempt 0 and throws on the first retry.
ClosureModes == {"stick", "regen", "throws"}
RetryCounts == 0..DefaultCreateRetryCount

Event(what, attempt) == [what |-> what, attempt |-> attempt]

IdleCall ==
    [pc |-> "idle", mode |-> "stick", dataKey |-> ContestedKey, attempt |-> 0,
     payload |-> ContestedKey, log |-> <<>>, outcome |-> "none", created |-> 0]

\* for (attempt = 0; attempt < this._createRetryCount; attempt++)
LoopContinues(attempt) == attempt < createRetryCount

\* if (attempt === (this._createRetryCount - 1))
\* (faulty variants: giving up one attempt early, and never retrying)
IsLastAttemptEarly(attempt) == attempt = createRetryCount - 2
IsLastAttemptAlways(attempt) == TRUE
IsLastAttempt(attempt) == attempt = createRetryCount - 1

\* The key the closure puts in the payload for this attempt; a generated key is
\* one nobody has used before.
ClosureKey(c, attempt) ==
    IF c.mode = "regen" /\ attempt > 0 THEN KeySeq[nextKey] ELSE c.dataKey
ClosureGenerates(c, attempt) == c.mode = "regen" /\ attempt > 0
ClosureThrows(c) == c.mode = "throws" /\ c.attempt > 0

\* The head of one loop iteration: test the loop condition and, when it holds,
\* call objectClosure(data, attempt); the executor then waits for its result.
\* When the condition fails the executor returns without settling the promise.
EnterAttempt(c, attempt) ==
    IF LoopContinues(attempt)
    THEN [c EXCEPT !.pc = "revising",
                   !.attempt = attempt,
                   !.payload = ClosureKey(c, attempt),
                   !.log = Append(c.log, Event("revise", attempt))]
    ELSE [c EXCEPT !.pc = "returned", !.attempt = attempt]

NextKeyAfter(c, attempt) ==
    IF LoopContinues(attempt) /\ ClosureGenerates(c, attempt) THEN nextKey + 1 ELSE nextKey

\* _createWithRetry(data, objectClosure) is called.
StartCall(p, mode, dataKey) ==
    /\ calls[p].pc = "idle"
    /\ LET c == [calls[p] EXCEPT !.mode = mode, !.dataKey = dataKey]
       IN  /\ calls' = [calls EXCEPT ![p] = EnterAttempt(c, 0)]
           /\ nextKey' = NextKeyAfter(c, 0)
    /\ UNCHANGED <<preexisting, storeVars, crudVars, queryVars, svcVars, regVars>>

\* await objectClosure(...) completes: either the closure failed, which the
\* catch block treats as a non-collision error, or _create(revised, true) is
\* called and its save is issued.
ReviseDone(p) ==
    /\ calls[p].pc = "revising"
    /\ LET c == calls[p]
       IN  calls' = [calls EXCEPT ![p] =
              IF ClosureThrows(c)
              THEN [c EXCEPT !.pc = "done", !.outcome = "error",
                             !.log = Append(@, Event("threw", c.attempt))]
              ELSE [c EXCEPT !.pc = "saving",
                             !.log = Append(@, Event("save", c.attempt))]]
    /\ UNCHANGED <<nextKey, preexisting, storeVars, crudVars, queryVars, svcVars, regVars>>

\* What _create(revised, true) leaves in the call's log when its save ended
\* with `err`: the result and, unless suppressed, the report it makes.
CreateEvents(err, attempt) ==
    IF err = "none"
    THEN <<Event("saved", attempt)>>
    ELSE <<Event(IF err = "collision" THEN "collision" ELSE "failed", attempt)>>
         \o (IF CreateReports(err, TRUE) THEN <<Event("report", attempt)>> ELSE <<>>)

\* The rest of the loop iteration after `await this._create(...)` ended with
\* `err`: resolve, give up with a report, try again, or fail at once.
\* (AfterSaveKeepsLooping is the faulty variant that falls through to the next
\* iteration after a save that succeeded)
AfterSaveKeepsLooping(c, err) ==
    LET logged == [c EXCEPT !.log = @ \o CreateEvents(err, c.attempt)]
    IN  CASE err # "none" /\ ~IsCollision(err) ->
                [logged EXCEPT !.pc = "done", !.outcome = "error"]
          [] err # "none" /\ IsCollision(err) /\ IsLastAttempt(c.attempt) ->
                [logged EXCEPT !.pc = "done", !.outcome = "collision",
                               !.log = Append(@, Event("report", c.attempt))]
          [] OTHER ->
                EnterAttempt([logged EXCEPT !.created = IF err = "none" THEN @ + 1 ELSE @],
                             c.attempt + 1)
AfterSave(c, err) ==
    LET logged == [c EXCEPT !.log = @ \o CreateEvents(err, c.attempt)]
    IN  CASE err = "none" ->
                [logged EXCEPT !.pc = "done", !.outcome = "entity", !.created = @ + 1]
          [] err # "none" /\ IsCollision(err) /\ IsLastAttempt(c.attempt) ->
                [logged EXCEPT !.pc = "done", !.outcome = "collision",
                               !.log = Append(@, Event("report", c.attempt))]
          [] err # "none" /\ IsCollision(err) /\ ~IsLastAttempt(c.attempt) ->
                EnterAttempt(logged, c.attempt + 1)
          [] OTHER ->
                [logged EXCEPT !.pc = "done", !.outcome = "error"]

\* The store answers the save of the current attempt; _create's callback and
\* the rest of the loop iteration run.
SaveDone(p) ==
    /\ calls[p].pc = "saving"
    /\ LET c == calls[p]
           doc == Doc(nextId, c.payload, "active", now)
       IN  \E err \in SaveVerdicts(doc) :
              /\ calls' = [calls EXCEPT ![p] = AfterSave(c, err)]
              /\ IF err = "none"
                 THEN store' = store \cup {doc} /\ nextId' = nextId + 1
                 ELSE UNCHANGED <<store, nextId>>
              /\ nextKey' = IF err # "none" /\ IsCollision(err) /\ ~IsLastAttempt(c.attempt)
                            THEN NextKeyAfter(c, c.attempt + 1) ELSE nextKey
    /\ UNCHANGED <<now, crudVars, preexisting, queryVars, svcVars, regVars>>

(***************************************************************************)
(* MongoService: connection registry and health  (src/MongoService.js)     *)
(***************************************************************************)
SchemaNames == {"a", "b"}
Malformed == "malformed"   \* an entry that is no object or lacks name, path or uri
NullEntry == "null"        \* a null entry: typeof null is 'object'

\* The entries at which the forEach callback of connect() throws.
Throws(entry) == entry \in {Malformed, NullEntry}

\* config.schemas as the application may write it (names unique in a list).
SchemaConfigs ==
    {<<>>, <<"a">>, <<"a", "b">>, <<Malformed>>, <<"a", Malformed>>, <<Malformed, "a">>,
     <<NullEntry>>}

\* Set-valued view of a map (an object keyed by schema name).
Put(map, k, v) == [x \in (DOMAIN map) \cup {k} |-> IF x = k THEN v ELSE map[x]]
EmptyMap == [x \in {} |-> FALSE]

\* getHealthStatus() evaluated on given field values.
HealthOf(states, expected) ==
    Cardinality({s \in DOMAIN states : states[s]}) = expected

\* getHealthStatus()
getHealthStatus == HealthOf(dbStates, expectedConnectionReadies)

\* this._expectedConnectionReadies = schemas.length
\* (ExpectedReadiesStale is the faulty variant that keeps the constructor's value)
ExpectedReadiesStale(list) == InitialExpectedConnectionReadies
ExpectedReadies(list) == Len(list)

\* connect() walks the list in order and throws at the first malformed entry:
\* the entries before it have been connected by then.
FirstMalformed(list) ==
    IF \E i \in 1..Len(list) : Throws(list[i])
    THEN CHOOSE i \in 1..Len(list) :
            Throws(list[i]) /\ \A j \in 1..(i - 1) : ~Throws(list[j])
    ELSE Len(list) + 1

\* What connect() throws: the Error it constructs for an entry that fails
\* the test, or the TypeError of reading schema.name on null.
ThrownError(list) ==
    IF FirstMalformed(list) > Len(list) THEN "none"
    ELSE IF list[FirstMalformed(list)] = NullEntry THEN "TypeError"
    ELSE "definition"
ConnectedBy(list) == {list[i] : i \in 1..(FirstMalformed(list) - 1)}

\* _connectSchema for every entry reached: a new connection, still connecting.
ConnectionsAfterConnect(list) ==
    [s \in (DOMAIN dbConnections) \cup ConnectedBy(list) |->
        IF s \in ConnectedBy(list) THEN "connecting" ELSE dbConnections[s]]

\* The part of the state connect() writes, shared by the method and the
\* service connector.
ConnectBody ==
    /\ expectedConnectionReadies' = ExpectedReadies(schemas)
    /\ appLog' = IF Len(schemas) = 0 THEN appLog + 1 ELSE appLog
    /\ dbConnections' = ConnectionsAfterConnect(schemas)
    /\ connectThrew' = (connectThrew \/ FirstMalformed(schemas) <= Len(schemas))
    /\ connectRuns' = connectRuns + 1
    /\ healthFlips' =
          IF HealthOf(dbStates, ExpectedReadies(schemas)) # getHealthStatus
          THEN healthFlips + 1 ELSE healthFlips

\* The application calls connect() itself. It runs as a task of its own, so
\* the nextTick queue is empty when it starts.
Connect ==
    /\ connectRuns < MaxConnects
    /\ nextTickQueue = <<>>
    /\ ConnectBody
    /\ UNCHANGED <<schemas, dbStates, reconnectTimers, nextTickQueue, delivered,
                   connector, appReports, events>>
    /\ UNCHANGED <<queryVars, svcVars, storeVars, crudVars, retryVars>>

NoConnector ==
    [ran |-> FALSE, listener |-> FALSE, cb |-> "unset", cbCalls |-> 0,
     healthyAfterConnect |-> FALSE, deliveredBefore |-> 0]

\* this.once(...): the listener is removed by the first emission it receives.
\* (ListenerStays is the faulty variant that registers with on(...))
ListenerStays(listener) == listener
ListenerAfterEmit(listener) == FALSE

\* The closure pushed on app._serviceConnectors, invoked by the application's
\* startup: connect(), register the once-listener, call back now when healthy.
ServiceConnector ==
    /\ ~connector.ran
    /\ connectRuns < MaxConnects
    /\ nextTickQueue = <<>>
    /\ ConnectBody
    /\ LET threw == FirstMalformed(schemas) <= Len(schemas)
           healthy == HealthOf(dbStates, ExpectedReadies(schemas))
       IN  connector' =
              LET entered == [connector EXCEPT !.ran = TRUE, !.cb = "set",
                                               !.healthyAfterConnect = healthy,
                                               !.deliveredBefore = Len(delivered)]
              IN  IF threw
                  THEN entered
                  ELSE IF healthy
                  THEN [entered EXCEPT !.listener = TRUE, !.cb = "null",
                                       !.cbCalls = @ + 1]
                  ELSE [entered EXCEPT !.listener = TRUE]
    /\ UNCHANGED <<schemas, dbStates, reconnectTimers, nextTickQueue, delivered,
                   appReports, events>>
    /\ UNCHANGED <<queryVars, svcVars, storeVars, crudVars, retryVars>>

\* process.nextTick(this.emit.bind(this, 'health_change', newState)): the
\* emission is queued, nothing reaches a listener inside the handler.
\* (DispatchInline is the faulty variant that calls this.emit(...) at once)
DispatchInline(queue, sent, state) == [queue |-> queue, sent |-> Append(sent, state)]
Dispatch(queue, sent, state) == [queue |-> Append(queue, state), sent |-> sent]

\* The tail shared by _onConnectionOpen and _onConnectionError: write the
\* schema's flag, compare the aggregate before and after, schedule the emit.
\* (SetSchemaStateAlwaysEmits is the faulty variant without the comparison)
SetSchemaStateAlwaysEmits(schemaName, value) ==
    LET newState == HealthOf(Put(dbStates, schemaName, value), expectedConnectionReadies)
        out == Dispatch(nextTickQueue, delivered, newState)
    IN  /\ dbStates' = Put(dbStates, schemaName, value)
        /\ nextTickQueue' = out.queue
        /\ delivered' = out.sent
        /\ healthFlips' = healthFlips + 1
SetSchemaState(schemaName, value) ==
    LET currentState == getHealthStatus
        newState == HealthOf(Put(dbStates, schemaName, value), expectedConnectionReadies)
        out == Dispatch(nextTickQueue, delivered, newState)
    IN  /\ dbStates' = Put(dbStates, schemaName, value)
        /\ nextTickQueue' = IF newState # currentState THEN out.queue ELSE nextTickQueue
        /\ delivered' = IF newState # currentState THEN out.sent ELSE delivered
        /\ healthFlips' = IF newState # currentState THEN healthFlips + 1 ELSE healthFlips

\* connection 'open' event -> _onConnectionOpen(schemaName)
ConnectionOpen(schemaName) ==
    /\ events < MaxEvents
    /\ schemaName \in DOMAIN dbConnections
    /\ dbConnections[schemaName] # "connected"
    /\ dbConnections' = [dbConnections EXCEPT ![schemaName] = "connected"]
    /\ SetSchemaState(schemaName, TRUE)
    /\ events' = events + 1
    /\ UNCHANGED <<schemas, expectedConnectionReadies, reconnectTimers,
                   connector, connectThrew, connectRuns, appLog, appReports>>
    /\ UNCHANGED <<queryVars, svcVars, storeVars, crudVars, retryVars>>

\* connection 'error' event -> _onConnectionError(schemaName, err); the
\* transport has either kept the connection's readyState or dropped it.
ConnectionError(schemaName, readyState) ==
    /\ events < MaxEvents
    /\ schemaName \in DOMAIN dbConnections
    /\ readyState \in {dbConnections[schemaName], "disconnected"}
    /\ dbConnections' = [dbConnections EXCEPT ![schemaName] = readyState]
    /\ appReports' = Report(appReports)
    /\ reconnectTimers' =
          IF readyState = "disconnected"
          THEN [reconnectTimers EXCEPT ![schemaName] = @ + 1]
          ELSE reconnectTimers
    /\ SetSchemaState(schemaName, FALSE)
    /\ events' = events + 1
    /\ UNCHANGED <<schemas, expectedConnectionReadies, connector,
                   connectThrew, connectRuns, appLog>>
    /\ UNCHANGED <<queryVars, svcVars, storeVars, crudVars, retryVars>>

\* connection 'disconnected' event -> _onDisconnection(schemaName): logs only
ConnectionDisconnected(schemaName) ==
    /\ events < MaxEvents
    /\ schemaName \in DOMAIN dbConnections
    /\ dbConnections[schemaName] = "connected"
    /\ dbConnections' = [dbConnections EXCEPT ![schemaName] = "disconnected"]
    /\ events' = events + 1
    /\ UNCHANGED <<schemas, expectedConnectionReadies, dbStates, reconnectTimers,
                   nextTickQueue, delivered, connector, connectThrew, connectRuns,
                   appLog, appReports, healthFlips>>
    /\ UNCHANGED <<queryVars, svcVars, storeVars, crudVars, retryVars>>

\* connection 'reconnected' event -> _onReconnection(schemaName): logs only
ConnectionReconnected(schemaName) ==
    /\ events < MaxEvents
    /\ schemaName \in DOMAIN dbConnections
    /\ dbConnections[schemaName] = "disconnected"
    /\ dbConnections' = [dbConnections EXCEPT ![schemaName] = "connected"]
    /\ events' = events + 1
    /\ UNCHANGED <<schemas, expectedConnectionReadies, dbStates, reconnectTimers,
                   nextTickQueue, delivered, connector, connectThrew, connectRuns,
                   appLog, appReports, healthFlips>>
    /\ UNCHANGED <<queryVars, svcVars, storeVars, crudVars, retryVars>>

\* The 5 s timer set by _onConnectionError fires -> _handleReconnect(schemaName):
\* connection._open()
HandleReconnect(schemaName) ==
    /\ events < MaxEvents
    /\ reconnectTimers[schemaName] > 0
    /\ reconnectTimers' = [reconnectTimers EXCEPT ![schemaName] = @ - 1]
    /\ dbConnections' = [dbConnections EXCEPT ![schemaName] = "connecting"]
    /\ events' = events + 1
    /\ UNCHANGED <<schemas, expectedConnectionReadies, dbStates, nextTickQueue,
                   delivered, connector, connectThrew, connectRuns, appLog,
                   appReports, healthFlips>>
    /\ UNCHANGED <<queryVars, svcVars, storeVars, crudVars, retryVars>>

\* The connector's listener: if (state && cb) cb()
ListenerCalls(c, state) == c.listener /\ state /\ c.cb = "set"

\* process.nextTick runs this.emit('health_change', newState).
EmitHealthChange ==
    /\ nextTickQueue # <<>>
    /\ LET state == Head(nextTickQueue)
       IN  /\ delivered' = Append(delivered, state)
           /\ connector' =
                 [connector EXCEPT
                     !.cbCalls = IF ListenerCalls(connector, state) THEN @ + 1 ELSE @,
                     !.listener = IF @ THEN ListenerAfterEmit(@) ELSE @]
    /\ nextTickQueue' = Tail(nextTickQueue)
    /\ UNCHANGED <<schemas, expectedConnectionReadies, dbStates, dbConnections,
                   reconnectTimers, connectThrew, connectRuns, appLog, appReports,
                   healthFlips, events>>
    /\ UNCHANGED <<queryVars, svcVars, storeVars, crudVars, retryVars>>

(***************************************************************************)
(* Initial states and specifications                                       *)
(***************************************************************************)
QueryIdle ==
    /\ qCriteria = NoCriteria
    /\ qOptions = EmptyOptions
    /\ qOrigCriteria = NoCriteria
    /\ qQuery = NoQuery
    /\ qCalls = 0

\* The identifier configuration of the test application
\* (src/test/mongo_test.js:17-23) and no conversion made yet.
NoCodec ==
    [op |-> "none", in |-> UndefinedValue, prefix |-> UndefinedValue,
     other |-> UndefinedValue, out |-> UndefinedValue, equal |-> FALSE,
     reported |-> FALSE, env |-> <<>>]
CodecDefault ==
    /\ prefixes = {DoodPrefix}
    /\ prefixAliases = {LegacyPrefix}
    /\ currentEnvironment = EnvDefault
    /\ codec = NoCodec

\* The fields as the CrudService constructor sets them.
SvcDefault ==
    /\ createRetryCount = DefaultCreateRetryCount
    /\ concealDeadResources = TRUE
    /\ modifiableKeys = {}
    /\ withCallback = FALSE
    /\ CodecDefault

StoreEmpty ==
    /\ store = {}
    /\ nextId = 1
    /\ now = 0

CrudIdle == ret = NoRet

RetryIdle ==
    /\ calls = [p \in Calls |-> IdleCall]
    /\ nextKey = Cardinality(CallerKeys) + 1
    /\ preexisting = FALSE

\* The fields as the MongoService constructor sets them, for a given config.
RegistryConstructed(config) ==
    /\ schemas = config
    /\ expectedConnectionReadies = InitialExpectedConnectionReadies
    /\ dbStates = EmptyMap
    /\ dbConnections = EmptyMap
    /\ reconnectTimers = [s \in SchemaNames |-> 0]
    /\ nextTickQueue = <<>>
    /\ delivered = <<>>
    /\ connector = NoConnector
    /\ connectThrew = FALSE
    /\ connectRuns = 0
    /\ appLog = 0
    /\ appReports = 0
    /\ healthFlips = 0
    /\ events = 0

\* ---- _buildQuery on caller-owned objects
InitQuery ==
    /\ qCriteria \in CallerCriteria
    /\ qOptions \in CallerOptions
    /\ qOrigCriteria = qCriteria
    /\ qQuery = NoQuery
    /\ qCalls = 0
    /\ createRetryCount = DefaultCreateRetryCount
    /\ concealDeadResources \in BOOLEAN
    /\ modifiableKeys = {}
    /\ withCallback = FALSE
    /\ CodecDefault
    /\ StoreEmpty /\ CrudIdle /\ RetryIdle /\ RegistryConstructed(<<>>)
NextQuery == BuildQuery
SpecQuery == InitQuery /\ [][NextQuery]_vars

\* ---- the CRUD operations against the collection
InitCrud ==
    /\ createRetryCount = DefaultCreateRetryCount
    /\ concealDeadResources \in BOOLEAN
    /\ modifiableKeys \in {{}, {"key"}}
    /\ withCallback = FALSE
    /\ CodecDefault
    /\ StoreEmpty /\ CrudIdle /\ QueryIdle /\ RetryIdle /\ RegistryConstructed(<<>>)
NextCrud ==
    \/ \E key \in CallerKeys, status \in StatusValues, suppress \in BOOLEAN :
          Create(key, status, suppress)
    \/ \E doc \in store, data \in UpdateData : Update(doc, data)
    \/ \E doc \in store : Delete(doc)
    \/ \E doc \in store : DeletePermanently(doc)
    \/ \E criteria \in FindCriteria, options \in FindOptions : Find(criteria, options)
SpecCrud == InitCrud /\ [][NextCrud]_vars

\* ---- reads by identifier and counts against a collection that is being
\* filled and soft-deleted
NextRead ==
    \/ \E key \in CallerKeys, status \in StatusValues, suppress \in BOOLEAN :
          Create(key, status, suppress)
    \/ \E doc \in store : Delete(doc)
    \/ \E id \in RetrieveIds : Retrieve(id)
    \/ \E criteria \in FindCriteria, options \in CountOptions : Count(criteria, options)
SpecRead == InitCrud /\ [][NextRead]_vars

\* ---- every operation, called with a callback or without one
InitChannels ==
    /\ createRetryCount = DefaultCreateRetryCount
    /\ concealDeadResources = TRUE
    /\ modifiableKeys = {"key"}
    /\ withCallback \in BOOLEAN
    /\ CodecDefault
    /\ StoreEmpty /\ CrudIdle /\ QueryIdle /\ RetryIdle /\ RegistryConstructed(<<>>)
NextChannels ==
    \/ \E key \in CallerKeys, status \in StatusValues, suppress \in BOOLEAN :
          Create(key, status, suppress)
    \/ \E doc \in store, data \in {NoData} : Update(doc, data)
    \/ \E doc \in store : Delete(doc)
    \/ \E doc \in store : DeletePermanently(doc)
    \/ \E id \in NonIdentifiers \cup {IdOf(d) : d \in store} : Retrieve(id)
    \/ \E criteria \in {NoCriteria}, options \in {EmptyOptions} : Find(criteria, options)
    \/ \E criteria \in {NoCriteria}, options \in {EmptyOptions} : Count(criteria, options)
SpecChannels == InitChannels /\ [][NextChannels]_vars

\* ---- the mutating operations with the clock running
NextCrudTimed ==
    \/ \E key \in CallerKeys, status \in StatusValues, suppress \in BOOLEAN :
          Create(key, status, suppress)
    \/ \E doc \in store, data \in UpdateData : Update(doc, data)
    \/ \E doc \in store : Delete(doc)
    \/ \E doc \in store : DeletePermanently(doc)
    \/ Tick
SpecCrudTimed == InitCrud /\ [][NextCrudTimed]_vars

\* ---- concurrent _createWithRetry calls
InitRetry ==
    /\ createRetryCount \in RetryCounts
    /\ concealDeadResources = TRUE
    /\ modifiableKeys = {}
    /\ withCallback = FALSE
    /\ CodecDefault
    /\ preexisting \in BOOLEAN
    /\ store = IF preexisting THEN {Doc(1, ContestedKey, "active", 0)} ELSE {}
    /\ nextId = IF preexisting THEN 2 ELSE 1
    /\ now = 0
    /\ calls = [p \in Calls |-> IdleCall]
    /\ nextKey = Cardinality(CallerKeys) + 1
    /\ CrudIdle /\ QueryIdle /\ RegistryConstructed(<<>>)
NextRetry ==
    \/ \E p \in Calls, mode \in ClosureModes, dataKey \in CallerKeys :
          StartCall(p, mode, dataKey)
    \/ \E p \in Calls : ReviseDone(p)
    \/ \E p \in Calls : SaveDone(p)
SpecRetry == InitRetry /\ [][NextRetry]_vars
\* The closure and the store answer every request made of them.
FairSpecRetry ==
    /\ SpecRetry
    /\ \A p \in Calls : WF_vars(ReviseDone(p)) /\ WF_vars(SaveDone(p))

\* ---- the identifier codec: public identifiers made in one environment
\* and read back in any
CodecIds ==
    {ObjectIdValue(HexOfId(n)) : n \in 1..MaxRecords}
    \cup {ObjectIdValue(SampleHex), NumberValue(12345)}
CodecPrefixes == {StringValue(DoodPrefix), StringValue(UnknownPrefix), UndefinedValue}
\* The forms one identifier is handed around in: the ObjectId, its hex
\* digits, the legacy public id, the current public id without and with an
\* environment part.
MetaTest == <<"t", "e", "s", "t", "_">>
FormsOf(n) ==
    {ObjectIdValue(HexOfId(n)),
     StringValue(HexOfId(n)),
     StringValue(LegacyPrefix \o PayloadOfId[n]),
     StringValue(DoodPrefix \o <<Underscore>> \o PayloadOfId[n]),
     StringValue(DoodPrefix \o <<Underscore>> \o MetaTest \o PayloadOfId[n])}
\* What callers hand to getComparableId, getObjectId and compareIds: the
\* values of the tests that are no identifier, tokens under prefixes nobody
\* registered, and every form of the identifiers in use.
LowerUnknownPrefix == <<"x", "x">>
TwelveCharacters == UnknownPrefix \o SubSeq(PayloadOfId[1], 1, 10)
UpperHexOfId(n) ==
    [i \in DOMAIN HexOfId(n) |->
        IF HexOfId(n)[i] \in Range(LowerCase)
        THEN UpperCase[IndexIn(LowerCase, HexOfId(n)[i])]
        ELSE HexOfId(n)[i]]
CodecTokens ==
    NonIdentifiers
    \cup {ArrayValue, FunctionValue, NumberValue(12345)}
    \cup {StringValue(TwelveCharacters), StringValue(UpperHexOfId(1))}
    \cup {StringValue(LowerUnknownPrefix \o <<Underscore>> \o PayloadOfId[1]),
          StringValue(DoodPrefix \o PayloadOfId[1]),
          StringValue(LegacyPrefix \o <<Underscore>> \o PayloadOfId[1])}
    \cup UNION {FormsOf(n) : n \in 1..MaxRecords}

\* getComparableId(token) called by the application
Comparable(token) ==
    /\ codec' = [NoCodec EXCEPT !.op = "comparable", !.in = token,
                                !.out = getComparableId(token)]
    /\ UNCHANGED <<ret, queryVars, svcVars, storeVars, retryVars, regVars>>

\* getObjectId(mixed_id) called by the application
ObjectIdFrom(mixed_id) ==
    /\ codec' = [NoCodec EXCEPT !.op = "objectId", !.in = mixed_id,
                                !.out = getObjectId(mixed_id)]
    /\ UNCHANGED <<ret, queryVars, svcVars, storeVars, retryVars, regVars>>

\* compareIds(a, b) called by the application on two forms of identifiers,
\* the public identifier of the current environment among them
CompareForms ==
    UNION {FormsOf(n) : n \in 1..MaxRecords}
    \cup {StringValue(DoodPrefix \o <<Underscore>> \o getEnvironmentIdPrefix
                      \o PayloadOfId[n]) : n \in 1..MaxRecords}
    \cup {StringValue(UpperHexOfId(1))}
Compare(a, b) ==
    /\ codec' = [NoCodec EXCEPT !.op = "compare", !.in = a, !.other = b,
                                !.equal = compareIds(a, b)]
    /\ UNCHANGED <<ret, queryVars, svcVars, storeVars, retryVars, regVars>>

InitCodec ==
    /\ SvcDefault /\ StoreEmpty /\ CrudIdle /\ QueryIdle /\ RetryIdle
    /\ RegistryConstructed(<<>>)
NextCodec ==
    \/ \E env \in Environments : SetEnvironment(env)
    \/ \E id \in CodecIds, prefix \in CodecPrefixes : PublicId(id, prefix)
    \/ ComparableId
    \/ ObjectIdOf
    \/ \E token \in CodecTokens : Comparable(token)
    \/ \E mixed_id \in CodecTokens : ObjectIdFrom(mixed_id)
SpecCodec == InitCodec /\ [][NextCodec]_vars

\* ---- comparisons of identifiers
NextCompare == \E a \in CompareForms, b \in CompareForms : Compare(a, b)
SpecCompare == InitCodec /\ [][NextCompare]_vars

\* ---- the connection registry
InitRegistry ==
    /\ \E config \in SchemaConfigs : RegistryConstructed(config)
    /\ SvcDefault /\ StoreEmpty /\ CrudIdle /\ QueryIdle /\ RetryIdle
NextRegistry ==
    \/ Connect
    \/ ServiceConnector
    \/ \E s \in SchemaNames : ConnectionOpen(s)
    \/ \E s \in SchemaNames, rs \in {"connecting", "connected", "disconnected"} :
          ConnectionError(s, rs)
    \/ \E s \in SchemaNames : ConnectionDisconnected(s)
    \/ \E s \in SchemaNames : ConnectionReconnected(s)
    \/ \E s \in SchemaNames : HandleReconnect(s)
    \/ EmitHealthChange
SpecRegistry == InitRegistry /\ [][NextRegistry]_vars
\* process.nextTick callbacks run, armed timers fire, and an opening the
\* transport has under way comes to its open event.
FairSpecRegistry ==
    /\ SpecRegistry
    /\ WF_vars(EmitHealthChange)
    /\ \A s \in SchemaNames : WF_vars(HandleReconnect(s)) /\ WF_vars(ConnectionOpen(s))

(***************************************************************************)
(* Claims                                                                  *)
(***************************************************************************)

\* C1: with the service's conceal flag on and options.conceal not false, a
\* _find never returns a document whose status is deletedStatus, whatever
\* criteria the caller gave and whatever creates, updates, deletes and
\* permanent deletes came before it.
FindNeverReturnsDeleted ==
    (ret.op = "find" /\ ret.svcConceal /\ ret.optConceal # "false")
        => \A d \in ret.docs : d.status # deletedStatus

\* C1 witness: a concealing _find returned a document while a soft-deleted
\* document was in the collection.
FindSkippedDeletedDoc ==
    /\ ret.op = "find" /\ ret.err = "none"
    /\ ret.svcConceal /\ ret.optConceal # "false"
    /\ ret.docs # {}
    /\ \E d \in store : d.status = deletedStatus /\ d \notin ret.docs

\* C2: for criteria carrying a status predicate S (any value, the empty string
\* included) the query composed with conceal on matches a document iff the
\* document satisfies the caller's criteria (its status equals S) and its
\* status is not deletedStatus.
ConcealMergeHonoursStatus ==
    (/\ qCalls = 1
     /\ qQuery.conceal
     /\ qOrigCriteria.given
     /\ qOrigCriteria.status.op # "absent")
        => \A doc \in DocSpace :
              Matches(qQuery.filter, doc)
                 <=> (Matches(qOrigCriteria, doc) /\ doc.status # deletedStatus)

\* ---- helpers over the log of a _createWithRetry call
EventsOf(c, what) == SelectSeq(c.log, LAMBDA e : e.what = what)
AttemptsOf(c, what) == [i \in 1..Len(EventsOf(c, what)) |-> EventsOf(c, what)[i].attempt]
UpTo(n) == [i \in 1..n |-> i - 1]
LastEvent(c) == c.log[Len(c.log)]

\* Every save the call made ended in a collision and the closure never threw.
CollidedEveryTime(c) ==
    /\ c.pc = "done"
    /\ Len(EventsOf(c, "saved")) = 0
    /\ Len(EventsOf(c, "failed")) = 0
    /\ Len(EventsOf(c, "threw")) = 0

\* C3: a _createWithRetry call whose payload collides on every attempt calls
\* the closure exactly createRetryCount times, with attempts 0, 1, ...,
\* createRetryCount-1 in that order, then surfaces the collision error and has
\* created no entity; and the closure is never called more often than that.
RetryBound ==
    \A p \in Calls :
       /\ \E n \in 0..createRetryCount : AttemptsOf(calls[p], "revise") = UpTo(n)
       /\ CollidedEveryTime(calls[p]) =>
             /\ AttemptsOf(calls[p], "revise") = UpTo(createRetryCount)
             /\ AttemptsOf(calls[p], "save") = UpTo(createRetryCount)
             /\ calls[p].outcome = "collision"
             /\ calls[p].created = 0

\* C3 witness: a call gave up after createRetryCount = 3 collisions.
RetryExhausted ==
    \E p \in Calls :
       /\ createRetryCount = DefaultCreateRetryCount
       /\ CollidedEveryTime(calls[p])
       /\ Len(EventsOf(calls[p], "collision")) = DefaultCreateRetryCount

\* C4: _createWithRetry stops at the first non-collision result. When attempt
\* k succeeds the entity is returned, the closure has been called k+1 times
\* and the save of attempt k is the last thing the call did; when attempt k
\* fails with a non-collision error the error is surfaced and the failure is
\* the last thing the call did; a finished call does nothing more.
StopsAtFirstResultState ==
    \A p \in Calls :
       LET c == calls[p] IN
       /\ (c.pc = "done" /\ c.outcome = "entity") =>
             /\ LastEvent(c) = Event("saved", c.attempt)
             /\ AttemptsOf(c, "revise") = UpTo(c.attempt + 1)
             /\ AttemptsOf(c, "save") = UpTo(c.attempt + 1)
             /\ Len(EventsOf(c, "saved")) = 1
             /\ c.created = 1
       /\ (c.pc = "done" /\ c.outcome = "error") =>
             /\ \/ /\ LastEvent(c) = Event("report", c.attempt)
                   /\ c.log[Len(c.log) - 1] = Event("failed", c.attempt)
                \/ LastEvent(c) = Event("threw", c.attempt)
             /\ Len(EventsOf(c, "failed")) + Len(EventsOf(c, "threw")) = 1
             /\ AttemptsOf(c, "revise") = UpTo(c.attempt + 1)
             /\ c.created = 0
       /\ c.pc # "done" => c.outcome = "none"
       /\ \A i \in 1..Len(c.log) :
             /\ c.log[i].what \in {"saved", "threw"} => i = Len(c.log)
             /\ c.log[i].what = "failed" =>
                   (i = Len(c.log) - 1 /\ LastEvent(c) = Event("report", c.attempt))
StopsAtFirstResult ==
    /\ []StopsAtFirstResultState
    /\ [][\A p \in Calls : calls[p].pc = "done" => calls'[p] = calls[p]]_vars

\* C4 witness: a call succeeded on a retry, and the other failed on a
\* non-collision error.
SucceededOnRetry ==
    \E p, q \in Calls :
       /\ calls[p].pc = "done" /\ calls[p].outcome = "entity" /\ calls[p].attempt > 0
       /\ calls[q].pc = "done" /\ calls[q].outcome = "error"

\* C5: inside _createWithRetry a collision is reported only once retries are
\* exhausted: a call that ends with an entity has made no report, a call that
\* ends with the collision error has made exactly one, at the final attempt,
\* as the last thing before the error is surfaced; no report is made while
\* the call is still running.
CollisionReportedOnlyAtExhaustion ==
    \A p \in Calls :
       LET c == calls[p] IN
       /\ c.outcome = "entity" => Len(EventsOf(c, "report")) = 0
       /\ c.pc # "done" => Len(EventsOf(c, "report")) = 0
       /\ c.outcome = "collision" =>
             /\ EventsOf(c, "report") = <<Event("report", createRetryCount - 1)>>
             /\ LastEvent(c) = Event("report", createRetryCount - 1)
             /\ c.log[Len(c.log) - 1] = Event("collision", createRetryCount - 1)

\* C5 witness: one call collided and then succeeded, the other exhausted its
\* retries.
OneRecoveredOneExhausted ==
    \E p, q \in Calls :
       /\ calls[p].outcome = "entity" /\ Len(EventsOf(calls[p], "collision")) > 0
       /\ calls[q].outcome = "collision" /\ createRetryCount > 1

\* ---- the race of two calls on one key
RaceScenario ==
    /\ createRetryCount >= 2
    /\ \A p \in Calls : calls[p].pc # "idle" /\ calls[p].mode = "regen"
    /\ calls[1].dataKey = calls[2].dataKey
    /\ ~(preexisting /\ calls[1].dataKey = ContestedKey)
RaceDone == \A p \in Calls : calls[p].pc = "done"
UniqueKeys == \A d, e \in store : d.key = e.key => d = e
RaceSafety ==
    /\ UniqueKeys
    /\ RaceScenario => \A p \in Calls : calls[p].outcome # "collision"
    /\ (RaceScenario /\ RaceDone /\ \A p \in Calls : calls[p].outcome # "error") =>
          /\ \A p \in Calls : calls[p].outcome = "entity"
          /\ \E p, q \in Calls :
                /\ p # q
                /\ LastEvent(calls[p]) = Event("saved", 0)
                /\ calls[q].log[3] = Event("collision", 0)
                /\ LastEvent(calls[q]) = Event("saved", 1)
          /\ \E d \in store : d.key = calls[1].dataKey

\* C6: two _createWithRetry calls given the same unique key, with a closure
\* that generates a new key on each retry (createRetryCount >= 2, the store
\* failing in no other way): the collection never holds two documents with
\* one key, exactly one call succeeds on the contested key, the other succeeds
\* on its next attempt, and both calls end.
ConcurrentCreatesResolve ==
    /\ []RaceSafety
    /\ RaceScenario ~> RaceDone

\* C6 witness: both calls ended with an entity, one of them after a collision
\* on the contested key.
RaceResolved ==
    /\ RaceScenario /\ RaceDone
    /\ \A p \in Calls : calls[p].outcome = "entity"
    /\ \E q \in Calls : Len(EventsOf(calls[q], "collision")) = 1

\* ---- the registry
Registered == {schemas[i] : i \in 1..Len(schemas)} \ {Malformed, NullEntry}
SchemaState(s) ==
    IF s \notin DOMAIN dbStates THEN "Pending"
    ELSE IF dbStates[s] THEN "Open" ELSE "Error"
OpenCount == Cardinality({s \in Registered : SchemaState(s) = "Open"})
Connected == connectRuns > 0 /\ ~connectThrew

TrueDeliveredSince(n) == \E i \in (n + 1)..Len(delivered) : delivered[i]

\* C8: the service connector calls its callback at most once; at once when
\* getHealthStatus() is true right after connect(), otherwise when the first
\* health_change(true) is delivered; never before the registry has been
\* healthy.
StartupCallbackOnce ==
    /\ connector.cbCalls <= 1
    /\ connector.cbCalls = 1 => (connector.ran /\ healthFlips > 0)
    /\ (connector.ran /\ connector.healthyAfterConnect) => connector.cbCalls = 1
    /\ (connector.ran /\ ~connector.healthyAfterConnect) =>
          (connector.cbCalls = 1 <=> TrueDeliveredSince(connector.deliveredBefore))

\* C8 witness: the callback ran on a delivered health_change(true), and a
\* second health_change(true) was delivered after it.
CalledBackThenHealthyAgain ==
    /\ connector.ran /\ ~connector.healthyAfterConnect
    /\ connector.cbCalls = 1
    /\ \E i, j \in (connector.deliveredBefore + 1)..Len(delivered) :
          i < j /\ delivered[i] /\ delivered[j]

\* C9: with an empty schema list connect() only warns, and the registry never
\* becomes ready: getHealthStatus() stays false, no health_change(true) is
\* emitted and the startup callback is never called.
EmptyConfigNeverReady ==
    Len(schemas) = 0 =>
       /\ ~connectThrew
       /\ ~getHealthStatus
       /\ \A i \in 1..Len(delivered) : ~delivered[i]
       /\ \A i \in 1..Len(nextTickQueue) : ~nextTickQueue[i]
       /\ connector.cbCalls = 0

\* C10: the number of health_change notifications (scheduled or delivered)
\* equals the number of times the value of getHealthStatus() has changed.
NotificationPerHealthChange ==
    Len(delivered) + Len(nextTickQueue) = healthFlips

(***************************************************************************)
(* C11: a health_change listener is never invoked inside the connection    *)
(* event handler that produced the transition. A step that writes a        *)
(* schema's flag or handles a connection event delivers nothing; a         *)
(* delivery is always the head of the nextTick queue, taken in a later     *)
(* step that leaves the per-schema state alone.                            *)
(***************************************************************************)
DeferredStep ==
    /\ (dbStates' # dbStates \/ events' # events) =>
          /\ delivered' = delivered
          /\ connector' = connector
    /\ delivered' # delivered =>
          /\ nextTickQueue # <<>>
          /\ delivered' = Append(delivered, Head(nextTickQueue))
          /\ nextTickQueue' = Tail(nextTickQueue)
          /\ dbStates' = dbStates
DeliveryIsDeferred == [][DeferredStep]_vars

\* One notification has reached the listeners while the next transition's
\* notification is still waiting in the queue.
DeliveredWhileNextPending ==
    /\ Len(delivered) > 0
    /\ nextTickQueue # <<>>
    /\ events >= 2

(***************************************************************************)
(* C12: every store failure of create, retrieve, find, count, update,      *)
(* delete and deletePermanently is reported to app.report and handed to    *)
(* the caller; nothing else is reported, and the only failure that may go  *)
(* unreported is a collision _create was told to keep quiet.               *)
(***************************************************************************)
QuietCollision == ret.op = "create" /\ ret.suppressed /\ ret.err = "collision"
FailuresReportedAndSurfaced ==
    /\ (ret.err # "none" /\ ~QuietCollision) => ret.reports >= 1
    /\ (ret.err = "none" \/ QuietCollision) => ret.reports = 0
    /\ ret.err # "none" => (ret.docs = {} /\ ret.count = NoNumber)

(***************************************************************************)
(* C13: _create without suppression reports every persistence failure,     *)
(* collisions included, exactly once; with suppressCollisionError = true a *)
(* collision is handed to the caller without a report and any other        *)
(* failure is still reported exactly once. A successful save reports       *)
(* nothing.                                                                *)
(***************************************************************************)
CreateReportsOnce ==
    ret.op = "create" =>
       ret.reports = (IF ret.err = "none" THEN 0
                      ELSE IF ret.suppressed /\ ret.err = "collision" THEN 0
                      ELSE 1)

\* Each of the four failure cases, told apart by the flag and the error.
CreateFailed(suppressed, err) ==
    /\ ret.op = "create"
    /\ ret.suppressed = suppressed
    /\ ret.err = err
\* An unsuppressed _create hit the unique index and reported it.
CreateCollisionReported ==
    /\ CreateFailed(FALSE, "collision")
    /\ ret.reports = 1
    /\ \E d \in store : d.key \in CallerKeys

PublicIdOf(d) ==
    StringValue(DoodPrefix \o <<Underscore>> \o EnvLocalPrefix \o PayloadOfId[d.id])
IdentifiersOf(d) ==
    {IdOf(d), StringValue(HexOfId(d.id)),
     StringValue(LegacyPrefix \o PayloadOfId[d.id]), PublicIdOf(d)}
RetrieveConcealsDeleted ==
    (ret.op = "retrieve" /\ ret.err = "none") =>
        \A d \in store :
           ret.arg \in IdentifiersOf(d) =>
              ret.docs = IF d.status = deletedStatus /\ concealDeadResources
                         THEN {}
                         ELSE {d}

\* A soft-deleted document was retrieved by its public id from a service
\* that does not conceal.
RetrievedDeletedUnconcealed ==
    /\ ret.op = "retrieve"
    /\ ~concealDeadResources
    /\ \E d \in store :
          /\ d.status = deletedStatus
          /\ ret.arg = PublicIdOf(d)
          /\ ret.docs = {d}

(***************************************************************************)
(* C16: _delete never removes the record. A successful delete leaves the   *)
(* number of stored documents unchanged and stores the document with       *)
(* status deletedStatus; afterwards a concealing _find with default        *)
(* options leaves the document out, and a _find with conceal: false whose  *)
(* criteria it matches returns it.                                         *)
(***************************************************************************)
DeleteStep ==
    (ret'.op = "delete" /\ ret'.err = "none" /\ (ret' # ret \/ store' # store)) =>
        /\ Cardinality(store') = Cardinality(store)
        /\ \E old \in store, new \in store' :
              /\ new.id = old.id /\ new.key = old.key
              /\ new.status = deletedStatus
              /\ store' = (store \ {old}) \cup {new}
              /\ ret'.docs = {new}
FindAfterDelete ==
    (ret.op = "find" /\ ret.err = "none") =>
        \A d \in store :
           d.status = deletedStatus =>
              /\ (ret.svcConceal /\ ret.optConceal = Undefined) => d \notin ret.docs
              /\ (ret.optConceal = "false" /\ ~ret.paged /\ d \in ret.matched) =>
                    d \in ret.docs
UpdatedAdvancesOnEveryDelete ==
    (ret.op = "delete" /\ ret.err = "none") =>
        \A d \in ret.docs :
           /\ d.status = deletedStatus
           /\ d.updated > ret.was.updated

(***************************************************************************)
(* C17 as amended: a soft delete can be repeated. Every successful _update *)
(* or _delete stores the document with updated set to the time of that     *)
(* call, so the stamp never goes back and moves forward whenever the clock *)
(* has moved since the previous stamp; after every _delete, the first or a *)
(* repeated one, the stored status is deletedStatus.                       *)
(***************************************************************************)
StampStep ==
    (/\ ret'.op \in {"update", "delete"}
     /\ ret'.err = "none"
     /\ (ret' # ret \/ store' # store)) =>
        \E new \in ret'.docs :
           /\ ret'.docs = {new}
           /\ new \in store'
           /\ new.id = ret'.was.id
           /\ new.updated = now
           /\ new.updated >= ret'.was.updated
           /\ ret'.was.updated < now => new.updated > ret'.was.updated
           /\ ret'.op = "delete" => new.status = deletedStatus
DeletedStaysDeleted ==
    (ret.op = "delete" /\ ret.err = "none") =>
        \A d \in ret.docs : d.status = deletedStatus
RepeatedDeleteStamps == [][StampStep]_vars /\ []DeletedStaysDeleted

\* _delete was called on a document that was deleted before, at a later
\* time: the status is still deletedStatus and the stamp has moved forward.
DeletedAgainLater ==
    /\ ret.op = "delete" /\ ret.err = "none"
    /\ ret.was.status = deletedStatus
    /\ \E d \in ret.docs :
          /\ d.status = deletedStatus
          /\ d.updated > ret.was.updated
          /\ d \in store

(***************************************************************************)
(* C18: _update copies onto the document exactly the fields that are both  *)
(* in _modifiableKeys and present in data; every other field of data is    *)
(* ignored and the document's field keeps its value. With the default      *)
(* _modifiableKeys = [] nothing but updated changes.                       *)
(***************************************************************************)
UpdateCopiesAllowedFields ==
    (ret.op = "update" /\ ret.err = "none") =>
        \E new \in ret.docs :
           /\ ret.docs = {new}
           /\ \A f \in {"id", "key", "status"} :
                 new[f] = IF f \in modifiableKeys /\ f \in DOMAIN ret.data
                          THEN ret.data[f]
                          ELSE ret.was[f]
           /\ modifiableKeys = {} => new = [ret.was EXCEPT !.updated = new.updated]

\* data carried an allowed key and a status that is not allowed: the key was
\* copied, the status was not.
UpdatedKeyButNotStatus ==
    /\ ret.op = "update" /\ ret.err = "none"
    /\ modifiableKeys = {"key"}
    /\ DOMAIN ret.data = {"key", "status"}
    /\ \E new \in ret.docs :
          /\ new.key = ret.data.key /\ new.key # ret.was.key
          /\ new.status = ret.was.status /\ new.status # ret.data.status

(***************************************************************************)
(* C19: connect() on a schema list with an entry that is no object or      *)
(* lacks name, path or uri throws the schema definition error inside the   *)
(* call itself: that step queues no emission, delivers none, arms no       *)
(* reconnect timer and does not run the connector's callback.              *)
(***************************************************************************)
HasBadEntry == \E i \in 1..Len(schemas) : Throws(schemas[i])
ConnectThrowsStep ==
    (connectRuns' > connectRuns /\ HasBadEntry) =>
        /\ connectThrew'
        /\ ThrownError(schemas) = "definition"
        /\ nextTickQueue' = nextTickQueue
        /\ delivered' = delivered
        /\ reconnectTimers' = reconnectTimers
        /\ connector'.cbCalls = connector.cbCalls
MalformedEntryThrowsAtOnce == [][ConnectThrowsStep]_vars

\* The same step without the kind of the error: every bad entry makes the
\* call throw at once.
ConnectThrowsSomethingStep ==
    (connectRuns' > connectRuns /\ HasBadEntry) =>
        /\ connectThrew'
        /\ nextTickQueue' = nextTickQueue
        /\ delivered' = delivered
        /\ reconnectTimers' = reconnectTimers
        /\ connector'.cbCalls = connector.cbCalls
BadEntryThrowsAtOnce == [][ConnectThrowsSomethingStep]_vars
\* A configuration that threw never produces a health notification.
ThrewStaysSilent ==
    connectThrew => (delivered = <<>> /\ nextTickQueue = <<>> /\ connector.cbCalls = 0)

(***************************************************************************)
(* C20: round trip. For every ObjectId id, every registered current prefix *)
(* p and every environment name, the public identifier getPublicId(id, p)  *)
(* made in that environment decodes to id again: getComparableId gives the *)
(* hex digits of id, getObjectId gives an ObjectId with those digits, and  *)
(* compareIds holds the public identifier and id to be equal.              *)
(***************************************************************************)
RoundTripCase ==
    /\ codec.op \in {"getComparableId", "getObjectId"}
    /\ codec.in.type = "ObjectId"
    /\ codec.prefix.type = "string" /\ codec.prefix.str \in prefixes
RoundTripHolds ==
    /\ codec.op = "getComparableId" => codec.out = StringValue(toString(codec.in))
    /\ codec.op = "getObjectId" => codec.out = codec.in
    /\ codec.equal
RoundTrip == RoundTripCase => RoundTripHolds

\* The same for the public identifiers made under an environment name of
\* letters and underscores.
LettersOnly(str) == \A i \in DOMAIN str : IsLetter(str[i]) \/ str[i] = Underscore
RoundTripUnderLetters == (RoundTripCase /\ LettersOnly(codec.env)) => RoundTripHolds

(***************************************************************************)
(* C21: getComparableId gives back the string it was given whenever the    *)
(* token's prefix is registered neither as a current prefix nor as a       *)
(* legacy alias: the letters before the first underscore of an             *)
(* underscore-style token, the first two characters of any other.          *)
(***************************************************************************)
RegisteredPrefixes == prefixes \cup prefixAliases
HeadOf(str) ==
    IF UnderscoresOf(str) # {} THEN SubSeq(str, 1, FirstUnderscore(str) - 1)
    ELSE IF Len(str) >= 2 THEN SubSeq(str, 1, 2)
    ELSE <<>>
UnknownPrefixCase ==
    /\ codec.op = "comparable"
    /\ codec.in.type = "string"
    /\ HeadOf(codec.in.str) \notin RegisteredPrefixes
    /\ Len(codec.in.str) >= 2 => SubSeq(codec.in.str, 1, 2) \notin RegisteredPrefixes
UnknownPrefixUnchanged == UnknownPrefixCase => codec.out = codec.in

\* A two-character-prefix token under a prefix nobody registered came back
\* as given.
UnknownTwoCharTokenKept ==
    /\ UnknownPrefixCase
    /\ codec.in = StringValue(UnknownPrefix \o PayloadOfId[1])
    /\ codec.out = codec.in

(***************************************************************************)
(* C22: getObjectId gives back the ObjectId it was given, the ObjectId of  *)
(* a string of 24 hex digits or of a public token that decodes, and null   *)
(* for every other value.                                                  *)
(***************************************************************************)
IsHexString(v) ==
    /\ v.type = "string" /\ Len(v.str) = 24
    /\ \A i \in DOMAIN v.str : LowerOf(v.str[i]) \in Range(HexAlphabet)
PublicTokensOf(n) ==
    {StringValue(LegacyPrefix \o PayloadOfId[n]),
     StringValue(DoodPrefix \o <<Underscore>> \o PayloadOfId[n]),
     StringValue(DoodPrefix \o <<Underscore>> \o MetaTest \o PayloadOfId[n])}
IsPublicToken(v) == \E n \in 1..MaxRecords : v \in PublicTokensOf(n)
ConvertsAsStated ==
    /\ IsObjectId(codec.in) => codec.out = codec.in
    /\ IsHexString(codec.in) => codec.out = ObjectIdValue(toLowerCase(codec.in.str))
    /\ \A n \in 1..MaxRecords :
          codec.in \in PublicTokensOf(n) => codec.out = ObjectIdValue(HexOfId(n))
NothingElseConverts ==
    (~IsObjectId(codec.in) /\ ~IsHexString(codec.in) /\ ~IsPublicToken(codec.in))
        => codec.out = NullValue
IsTwelve(v) == v.type = "string" /\ Len(v.str) = 12
Denotes(v, n) ==
    \/ v \in FormsOf(n)
    \/ v = StringValue(DoodPrefix \o <<Underscore>> \o EnvLocalPrefix \o PayloadOfId[n])
    \/ v = StringValue(UpperHexOfId(n))
SameIdentifier(a, b) == \E n \in 1..MaxRecords : Denotes(a, n) /\ Denotes(b, n)
CompareIsIdentity ==
    codec.op = "compare" => (codec.equal <=> SameIdentifier(codec.in, codec.other))

\* The same with hex strings written in small letters only.
SmallLetters(v) == v.type = "string" => v.str \notin {UpperHexOfId(n) : n \in 1..MaxRecords}
CompareIsIdentityOnSmallHex ==
    (codec.op = "compare" /\ SmallLetters(codec.in) /\ SmallLetters(codec.other))
        => (codec.equal <=> SameIdentifier(codec.in, codec.other))

(***************************************************************************)
(* C24: a _buildQuery call whose options say conceal: false hands the      *)
(* caller's criteria to the store as they are: the filter is the criteria, *)
(* the caller's criteria object is left as it was, and every document the  *)
(* criteria match is matched by the filter, the deleted ones included.     *)
(***************************************************************************)
ConcealOffStep ==
    (qCalls' = qCalls + 1 /\ qOptions.conceal = "false") =>
        /\ qQuery'.filter = qCriteria
        /\ qCriteria' = qCriteria
        /\ ~qQuery'.conceal
        /\ \A doc \in DocSpace : Matches(qQuery'.filter, doc) <=> Matches(qCriteria, doc)
ConcealOffLeavesCriteria == [][ConcealOffStep]_vars

\* A concealing service built a query with conceal: false on criteria that
\* ask for the deleted documents, and the filter matches such a document.
BuiltUnconcealedForDeleted ==
    /\ concealDeadResources
    /\ qCalls = 1 /\ qQuery.built /\ ~qQuery.conceal
    /\ qOrigCriteria.given /\ qOrigCriteria.status = Eq(deletedStatus)
    /\ qQuery.filter = qOrigCriteria
    /\ \E doc \in DocSpace : doc.status = deletedStatus /\ Matches(qQuery.filter, doc)

\* _find with conceal: false and no skip or take returns the documents the
\* criteria match.
FindUnconcealedReturnsMatches ==
    (ret.op = "find" /\ ret.err = "none" /\ ret.optConceal = "false" /\ ~ret.paged)
        => ret.docs = ret.matched

(***************************************************************************)
(* C25: conceal invariant. A concealing _buildQuery call on criteria with  *)
(* no $and and no status (or on no criteria at all) gives a filter whose   *)
(* status is {$ne: deletedStatus}, with every other predicate of the       *)
(* criteria as it was given and no $and.                                   *)
(***************************************************************************)
ConcealDefaultStep ==
    (/\ qCalls' = qCalls + 1
     /\ concealDeadResources
     /\ qOptions.conceal \in {Undefined, "true"}
     /\ ~qCriteria.hasAnd
     /\ qCriteria.status = AbsentPred) =>
        /\ qQuery'.filter.status = Ne(deletedStatus)
        /\ qQuery'.filter.key = qCriteria.key
        /\ ~qQuery'.filter.hasAnd /\ qQuery'.filter.and = <<>>
        /\ \A doc \in DocSpace :
              Matches(qQuery'.filter, doc) <=>
                 (doc.status # deletedStatus /\ Matches(qCriteria, doc))
ConcealDefaultsStatus == [][ConcealDefaultStep]_vars

\* Criteria that carry a key predicate only were given the status filter.
KeyCriteriaGotDeadFilter ==
    /\ qCalls = 1 /\ qQuery.conceal
    /\ qOrigCriteria = Criteria(AbsentPred, Eq(ContestedKey), FALSE, <<>>)
    /\ qQuery.filter = Criteria(Ne(deletedStatus), Eq(ContestedKey), FALSE, <<>>)

(***************************************************************************)
(* C26: an operation that has its outcome hands it over through exactly    *)
(* one channel, exactly once: one call of the callback and no settling of  *)
(* the promise when a callback was given, one settling of the promise and  *)
(* no callback otherwise.                                                  *)
(***************************************************************************)
OneChannel ==
    IF withCallback
    THEN ret.cbCalls = 1 /\ ret.settles = 0
    ELSE ret.cbCalls = 0 /\ ret.settles = 1
OneChannelOnce == ret.op # "none" => OneChannel

\* The same for every outcome but a successful _create.
OneChannelOnceButCreate ==
    (ret.op # "none" /\ ~(ret.op = "create" /\ ret.err = "none")) => OneChannel

(***************************************************************************)
(* C27: the attempts of one _createWithRetry call are strictly sequential. *)
(* objectClosure is called for attempt k+1 only after the save of attempt  *)
(* k has ended with a collision, a save is issued only after the closure   *)
(* call of its attempt, and a call never has two saves in flight.          *)
(***************************************************************************)
Positions(log, what, attempt) ==
    {i \in DOMAIN log : log[i] = Event(what, attempt)}
SaveResults == {"saved", "collision", "failed"}
SavesInFlight(log) ==
    Cardinality({i \in DOMAIN log : log[i].what = "save"})
    - Cardinality({i \in DOMAIN log : log[i].what \in SaveResults})
SequentialLog(log) ==
    /\ \A i \in DOMAIN log :
          /\ (log[i].what = "revise" /\ log[i].attempt > 0) =>
                \E j \in 1..(i - 1) : log[j] = Event("collision", log[i].attempt - 1)
          /\ log[i].what = "save" =>
                /\ \E j \in 1..(i - 1) : log[j] = Event("revise", log[i].attempt)
                /\ \A j \in 1..(i - 1) :
                      log[j].what = "save" =>
                         \E k \in (j + 1)..(i - 1) :
                            log[k].what \in SaveResults /\ log[k].attempt = log[j].attempt
    /\ SavesInFlight(log) \in {0, 1}
AttemptsAreSequential ==
    \A p \in Calls :
       /\ SequentialLog(calls[p].log)
       /\ SavesInFlight(calls[p].log) = 1 <=> calls[p].pc = "saving"

\* A call is saving its second attempt after the first one collided.
SecondSaveInFlight ==
    \E p \in Calls :
       /\ calls[p].pc = "saving" /\ calls[p].attempt = 1
       /\ Positions(calls[p].log, "collision", 0) # {}

(***************************************************************************)
(* C28: a concealing _buildQuery call on criteria that carry a status S    *)
(* takes the status off the top level and puts {status: S} and the dead    *)
(* filter, in this order, at the end of the $and list: after the caller's  *)
(* entries, kept in their order, or as the only two entries of a new list. *)
(***************************************************************************)
MergedInto(criteria, filter) ==
    /\ filter.status = AbsentPred
    /\ filter.key = criteria.key
    /\ filter.hasAnd
    /\ filter.and = (IF criteria.hasAnd THEN criteria.and ELSE <<>>)
                    \o <<Cond("status", criteria.status),
                         Cond("status", Ne(deletedStatus))>>
ConcealingCallWithStatus ==
    /\ qCalls' = qCalls + 1
    /\ concealDeadResources
    /\ qOptions.conceal \in {Undefined, "true"}
    /\ qCriteria.given
    /\ qCriteria.status # AbsentPred
StatusMergeStep == ConcealingCallWithStatus => MergedInto(qCriteria, qQuery'.filter)
StatusMergedIntoAnd == [][StatusMergeStep]_vars

\* The same for the status predicates that are truthy in JavaScript.
TruthyStatusMergeStep ==
    (ConcealingCallWithStatus /\ Truthy(qCriteria.status))
        => MergedInto(qCriteria, qQuery'.filter)
TruthyStatusMergedIntoAnd == [][TruthyStatusMergeStep]_vars

(***************************************************************************)
(* C29: the 'reconnected' event of a schema marks the schema open: after   *)
(* the event the schema counts as open in getHealthStatus(), and when the  *)
(* aggregate changes by it health_change with the new value is scheduled.  *)
(***************************************************************************)
ReconnectedStep ==
    \A s \in SchemaNames :
       ConnectionReconnected(s) =>
          /\ s \in DOMAIN dbStates' /\ dbStates'[s]
          /\ HealthOf(dbStates', expectedConnectionReadies) # getHealthStatus =>
                nextTickQueue' = Append(nextTickQueue,
                                        HealthOf(dbStates', expectedConnectionReadies))
ReconnectedMarksOpen == [][ReconnectedStep]_vars

(***************************************************************************)
(* C30: the 'disconnected' event of a schema marks the schema not open:    *)
(* after the event getHealthStatus() is false, and when the aggregate was  *)
(* true health_change(false) is scheduled.                                 *)
(***************************************************************************)
DisconnectedStep ==
    \A s \in SchemaNames :
       ConnectionDisconnected(s) =>
          /\ s \in DOMAIN dbStates' /\ ~dbStates'[s]
          /\ ~HealthOf(dbStates', expectedConnectionReadies)
          /\ getHealthStatus => nextTickQueue' = Append(nextTickQueue, FALSE)
DisconnectedMarksNotOpen == [][DisconnectedStep]_vars

(***************************************************************************)
(* C31: a connection error marks the schema not open and is reported, and  *)
(* the retry of the opening, when the backoff timer fires, is issued only  *)
(* against a connection that has not come back by itself: never against a  *)
(* connection that is connected again.                                     *)
(***************************************************************************)
ErrorStep ==
    \A s \in SchemaNames, rs \in {"connecting", "connected", "disconnected"} :
       ConnectionError(s, rs) =>
          /\ s \in DOMAIN dbStates' /\ ~dbStates'[s]
          /\ appReports' = Report(appReports)
          /\ reconnectTimers'[s] <= reconnectTimers[s] + 1
RetryStep ==
    \A s \in SchemaNames : HandleReconnect(s) => dbConnections[s] # "connected"
ErrorMarksAndRetriesIfDown == [][ErrorStep /\ RetryStep]_vars

\* The part about the error handler alone.
ErrorMarksAndReports == [][ErrorStep]_vars

(***************************************************************************)
(* C32: after an error, once the connection of every schema is             *)
(* re-established and no retry is pending, getHealthStatus() becomes true  *)
(* again and health_change(true) is delivered, unless a connection goes    *)
(* down again first.                                                       *)
(***************************************************************************)
Reestablished ==
    /\ connectRuns > 0 /\ ~connectThrew /\ Len(schemas) > 0
    /\ appReports > 0
    /\ \A i \in 1..Len(schemas) :
          /\ schemas[i] \in DOMAIN dbConnections
          /\ dbConnections[schemas[i]] = "connected"
          /\ reconnectTimers[schemas[i]] = 0
HealthyAndTold ==
    /\ getHealthStatus
    /\ nextTickQueue = <<>>
    /\ delivered # <<>> /\ delivered[Len(delivered)]
WentDown ==
    /\ appReports > 0
    /\ \E s \in Registered :
          s \in DOMAIN dbConnections /\ dbConnections[s] = "disconnected"
RecoversAfterError ==
    [](WentDown => [](Reestablished => <>(HealthyAndTold \/ ~Reestablished)))

(***************************************************************************)
(* C33: getComparableId decodes a token with the legacy two-character      *)
(* scheme when its first two characters are a registered alias and the     *)
(* parsed prefix is no registered current prefix, tokens of the underscore *)
(* shape included.                                                         *)
(***************************************************************************)
IsBase58(str) == \A i \in DOMAIN str : str[i] \in DOMAIN Base58Value
AliasRest(str) == SubSeq(str, 3, Len(str))
AliasDecoded(str) == StringValue(toLowerCase(Base58Decode(AliasRest(str))))
LegacyFallbackCase ==
    /\ codec.op = "comparable"
    /\ codec.in.type = "string"
    /\ Len(codec.in.str) >= 2
    /\ SubSeq(codec.in.str, 1, 2) \in prefixAliases
    /\ ~(ParserMatches(codec.in.str) /\ ParserPrefix(codec.in.str) \in prefixes)
LegacyFallbackAlways ==
    LegacyFallbackCase =>
       /\ codec.out # codec.in
       /\ IsBase58(AliasRest(codec.in.str)) => codec.out = AliasDecoded(codec.in.str)

\* As the code has it: the legacy scheme is tried only for a token that has
\* not the underscore shape; an underscore-shaped token under a prefix that
\* is no registered current prefix is given back as it came.
LegacyFallbackWithoutUnderscore ==
    LegacyFallbackCase =>
       IF ParserMatches(codec.in.str)
       THEN codec.out = codec.in
       ELSE codec.out = AliasDecoded(codec.in.str)

\* The legacy token of the first identifier was decoded to its hex digits.
LegacyTokenDecoded ==
    /\ LegacyFallbackCase
    /\ codec.in = StringValue(LegacyPrefix \o PayloadOfId[1])
    /\ codec.out = StringValue(HexOfId(1))

(***************************************************************************)
(* C34: every call of _createWithRetry ends with an outcome (the entity,   *)
(* the collision error or another error), whatever createRetryCount is,    *)
(* when the closure and the store answer.                                  *)
(***************************************************************************)
Settled(p) == calls[p].pc = "done" /\ calls[p].outcome # "none"
EveryCallSettles == \A p \in Calls : (calls[p].pc # "idle") ~> Settled(p)

\* With at least one attempt allowed every call does end with an outcome.
EveryCallSettlesIfAttempted ==
    \A p \in Calls : (calls[p].pc # "idle" /\ createRetryCount > 0) ~> Settled(p)

(***************************************************************************)
(* C35: two consecutive _buildQuery calls that are handed the same options *)
(* object apply the same conceal setting and the same pagination and match *)
(* the same documents.                                                     *)
(***************************************************************************)
SameMatches(f, g) == \A doc \in DocSpace : Matches(f, doc) <=> Matches(g, doc)
SecondCallStep ==
    qQuery.built =>
       /\ qQuery'.conceal = qQuery.conceal
       /\ qQuery'.skip = qQuery.skip
       /\ qQuery'.limit = qQuery.limit
       /\ SameMatches(qQuery'.filter, qQuery.filter)
SameOptionsSameQuery == [][SecondCallStep]_vars

(***************************************************************************)
(* C36: _buildQuery calls repeated on the same criteria object keep        *)
(* matching the documents matched after the first call, and the $and list  *)
(* of the criteria does not grow from one call to the next.                *)
(***************************************************************************)
BothConceal == qQuery.built /\ qQuery.conceal /\ qQuery'.conceal
RepeatedMergeStep ==
    BothConceal =>
       /\ SameMatches(qQuery'.filter, qQuery.filter)
       /\ Len(qQuery'.filter.and) = Len(qQuery.filter.and)
RepeatedMergeIdempotent == [][RepeatedMergeStep]_vars

\* The documents matched do stay the same from call to call.
RepeatedMergeMatchesSame ==
    [][BothConceal => SameMatches(qQuery'.filter, qQuery.filter)]_vars

(***************************************************************************)
(* C37: a connect() over a configuration with a malformed entry, at any    *)
(* position in the list, throws before it has opened any connection.       *)
(***************************************************************************)
ValidationFirstStep ==
    (connectRuns' > connectRuns /\ HasBadEntry) =>
        /\ connectThrew'
        /\ dbConnections' = dbConnections
ValidationIsAtomic == [][ValidationFirstStep]_vars

\* A malformed entry at the head of the list does stop connect() before any
\* connection is made.
BadHeadStep ==
    (connectRuns' > connectRuns /\ Len(schemas) > 0 /\ Throws(schemas[1])) =>
        /\ connectThrew'
        /\ dbConnections' = dbConnections
BadHeadConnectsNothing == [][BadHeadStep]_vars

(***************************************************************************)
(* C38: with at least one schema registered, the health_change values      *)
(* delivered to listeners alternate, and the first of them is true.        *)
(***************************************************************************)
Alternates(seq) == \A i \in 1..(Len(seq) - 1) : seq[i] # seq[i + 1]
DeliveredAlternates ==
    (Registered # {} /\ delivered # <<>>) =>
        /\ delivered[1]
        /\ Alternates(delivered)

\* Ready, not ready and ready again were delivered in that order.
DeliveredUpDownUp ==
    /\ Registered # {}
    /\ Len(delivered) >= 3
    /\ delivered[1] /\ ~delivered[2] /\ delivered[3]

(***************************************************************************)
(* C39: whenever health_change(v) is delivered to the listeners,           *)
(* getHealthStatus() is v at that moment, however the connection events    *)
(* and the deferred deliveries interleave.                                 *)
(***************************************************************************)
FreshDeliveryStep ==
    delivered' # delivered => delivered'[Len(delivered')] = getHealthStatus
DeliveryIsFresh == [][FreshDeliveryStep]_vars

\* A delivery that no connection event overtook carries the current value.
UnovertakenDeliveryStep ==
    (delivered' # delivered /\ Len(nextTickQueue) = 1) =>
        delivered'[Len(delivered')] = getHealthStatus
UnovertakenDeliveryIsFresh == [][UnovertakenDeliveryStep]_vars

====
